---- MODULE Spec2Model ----
(***************************************************************************)
(* Model of scanner.py (SamNet-dev/cfray).                                 *)
(*                                                                         *)
(* Part 1: CFRateLimiter (scanner.py 727-828), used by asyncio coroutines. *)
(* asyncio is single threaded and cooperative: the code between two awaits *)
(* that really suspend runs as one step.  The only suspension points of    *)
(* acquire are the asyncio.sleep(1) calls of _wait_blocked and             *)
(* _wait_budget: the asyncio.Lock is never held across one of them, so     *)
(* `await self._lock.acquire()` finds the lock free and does not suspend.  *)
(* time.monotonic() is an integer number of seconds here; every read made  *)
(* inside one step returns the same value `now`.                           *)
(***************************************************************************)
EXTENDS Integers, Sequences, FiniteSets, TLC

\* ------------------------------------------------------------------ bounds
NProcs == 3         \* coroutines that call acquire
MaxBudgetProcs == 2 \* those of them that run in SpecBudget
MaxNow == 1201      \* the clock stops advancing here
MaxShort == 1       \* number of 1 s clock steps (the others jump to a deadline)
MaxCalls == 4       \* acquire calls of one run of SpecLimiter
MaxReports == 2     \* report_429 calls of one run
MaxProbes == 3      \* probes of one scan
MaxWorkers == 2     \* permits of a scan's semaphore
MaxIps == 2         \* length of working_ips, and number of distinct IPs
MaxCidrs == 2       \* number of subnets given to generate_cf_ips
MaxSampledHosts == 400  \* hosts of the blocks of an input that is sampled
MaxEntries == 3     \* number of entries given to expand_custom_ips
MaxPipeIps == 3     \* number of distinct IPs of a pipeline run
MaxLive == 2        \* live IPs that Stage 1 of a pipeline run found
MaxExpansion == 3   \* pcfg.max_expansion of a pipeline run
MaxAlive == 300     \* alive IPs that phase 1 of run_scan found
MaxCands == 9       \* candidates of one speed round
MaxScanIps == 2     \* IPs probed by one scan on one or two ports
MaxFrames == 3      \* WebSocket frames the server sends in one tunnel probe
MaxBaseTests == 21  \* base variations of one run, in the model of the gathers
MaxExpTests == 61   \* expansion variations of one run, in that model

\* ------------------------------------------------------- program constants
BUDGET == 550
WINDOW == 600

Procs == 1..NProcs
RetryAfters == {-1, 5, 45, 3600}   \* Retry-After values handed to report_429

Min(a, b) == IF a < b THEN a ELSE b
Max(a, b) == IF a > b THEN a ELSE b

VARIABLES
  count, window_start, blocked_until,   \* CFRateLimiter fields
  now,                                  \* time.monotonic()
  interrupted,                          \* st.interrupted
  pc,             \* per coroutine: "idle", "wait_blocked", "wait_budget"
  due,            \* per coroutine: its asyncio.sleep(1) has elapsed
  wait_until, saved_window,             \* locals of acquire
  nshort,                               \* 1 s clock steps taken so far
  ncalls,         \* acquire calls made so far (counted up to MaxCalls)
  nreports,       \* report_429 calls made so far
  ev,             \* the operation performed by the last step (history)
  roll_reset      \* per coroutine: window for which it last ran line 800
                  \* after its budget wait ran to the end (history), or -1

lvars == <<count, window_start, blocked_until, now, interrupted, pc, due,
           wait_until, saved_window, nshort, ncalls, nreports, ev, roll_reset>>

VARIABLES
  sc_kind,        \* which scan runs: "clean", "latency" or "pipeline"
  sc_pc,          \* the scan coroutine: "init", "gather", "ended"
  sc_total, sc_done, sc_found,          \* cs.total, cs.done, cs.found
  sc_intr,        \* cs.interrupted / st.interrupted / xst.interrupted
  sc_cancel,      \* scan_task.cancel() was requested and is not yet delivered
  sc_task,        \* per probe task: "none", "created", "wait_sem", "probing",
                  \* "finished", "returned", "cancelled"
  sc_sem          \* free permits of the semaphore

svars == <<sc_kind, sc_pc, sc_total, sc_done, sc_found, sc_intr, sc_cancel,
           sc_task, sc_sem>>

VARIABLES
  g_pc,           \* "init", then "done" once generate_pipeline_variations ran
  g_in,           \* its arguments
  g_out           \* the list it returned

gvars == <<g_pc, g_in, g_out>>

VARIABLES
  t_pc,           \* "init", then "done" once _test_single_variation returned
  t_size,         \* its size argument (bytes to download)
  t_env,          \* what the network and the proxy did during the test
  t_var,          \* the XrayVariation under test
  t_xray          \* the XrayProcess of the test: "none", "running", "stopped"

tvars == <<t_pc, t_size, t_env, t_var, t_xray>>

VARIABLES
  c_pc,           \* "init", then "done" once generate_cf_ips returned
  c_in,           \* its arguments: subnets and sample_per_24
  c_ips,          \* the list it returned
  f_pc,           \* "init", then "done" once expand_custom_ips returned
  f_in,           \* the entries of its raw input
  f_out           \* the list it returned

cvars == <<c_pc, c_in, c_ips>>
fvars == <<f_pc, f_in, f_out>>

VARIABLES
  p_pc,           \* xray_pipeline_test: "init" (Stage 1 has gathered its
                  \* probes), "base_test", "fallback", "expansion", "finished"
  p_in,           \* the config, the results of Stage 1, the outcome per target
  p_intr,         \* xst.interrupted
  p_stage,        \* xst.pipeline_stage
  p_task,         \* per task of the running gather: "created", "testing",
                  \* "done", "returned"
  p_working,      \* xst.working_ips
  p_variations,   \* xst.variations, as the list of their tags
  p_sni,          \* the local orig_sni
  p_fb,           \* position in fallback_snis of the test that runs
  p_exp_ips,      \* the local _expansion_ips
  p_exp,          \* the local expansion_vars, as the list of their tags
  p_ci,           \* the local _ci of the running loop
  p_dec           \* whether line 2994 ran, and what it saw (history)

pvars == <<p_pc, p_in, p_intr, p_stage, p_task, p_working, p_variations,
           p_sni, p_fb, p_exp_ips, p_exp, p_ci, p_dec>>

VARIABLES
  r_pc,           \* run_scan: "init" (phase 1 is over), "round", "finished"
  r_in,           \* st.mode and the number of IPs phase 1 found alive
  r_intr,         \* st.interrupted
  r_cut_n,        \* st.latency_cut_n
  r_alive,        \* len(alive) after the latency cut
  r_rounds,       \* st.rounds
  r_cur,          \* st.cur_round
  r_cands,        \* len(cands)
  r_tested        \* len(candidates) of every phase2_round call (history)

rvars == <<r_pc, r_in, r_intr, r_cut_n, r_alive, r_rounds, r_cur, r_cands,
           r_tested>>

VARIABLES
  h_in,           \* phase2_round: rcfg.size, workers, len(candidates)
  h_intr,         \* st.interrupted
  h_sem,          \* value of the semaphore
  h_at            \* number of go() tasks per position: "loop1", "sem1",
                  \* "dl1" (attempt 0), "loop2", "sem2", "dl2" (attempt 1),
                  \* "done"

hvars == <<h_in, h_intr, h_sem, h_at>>

VARIABLES
  d_in,           \* the IPs and ports probed, and the latency of every probe
  d_pc,           \* scan_clean_ips: "init", then "done" once it returned
  d_results,      \* the list it returned
  d_stage,        \* Stage 1 of the pipeline: "init", then "done" (2830)
  d_live_ips,     \* xst.live_ips
  d_live_ip_ports \* xst.live_ip_ports; an absent IP has the empty list

dvars == <<d_in, d_pc, d_results, d_stage, d_live_ips, d_live_ip_ports>>

VARIABLES
  w_pc,           \* _vless_ws_speed_test: "start", "tunnel" (waits in the
                  \* reader.read of _vless_ws_read_tunnel), "done"
  w_in,           \* what the server does: its answer to the upgrade and the
                  \* frames it sends
  w_pos,          \* bytes of the frames received so far
  w_buf,          \* wsp._buf
  w_vless,        \* vless_hdr_done
  w_http,         \* http_hdr_done
  w_http_buf,     \* http_buf
  w_body,         \* body_total
  w_late,         \* time.monotonic() has reached dl_deadline
  w_ret           \* the returned (connect_ms, ttfb_ms, speed_mbps, error);
                  \* before the return, connect_ms and ttfb_ms as measured

wvars == <<w_pc, w_in, w_pos, w_buf, w_vless, w_http, w_http_buf, w_body,
           w_late, w_ret>>

\* the parts after the first five
later == <<pvars, rvars, hvars, dvars, wvars>>

VARIABLES
  e_pc,           \* the gathers of the pipeline: "init", "base_test",
                  \* "expansion", "finished"
  e_in,           \* the number of base variations and of expansion variations
  e_ci,           \* _ci: the variations handed to earlier gathers of the stage
  e_at,           \* tasks of the running gather per position: "created",
                  \* "wait" (for the semaphore), "testing", "done"
  e_intr,         \* xst.interrupted
  e_waves         \* history: per gather started, its stage, its size and
                  \* the flag as the loop read it before the gather

evars == <<e_pc, e_in, e_ci, e_at, e_intr, e_waves>>

VARIABLES
  q_pc,           \* scoring of one record: "init", "var_tested",
                  \* "var_scored", "lat_done", "res_scored"
  q_var,          \* an XrayVariation of xst.variations
  q_res,          \* a Result of st.res
  q_has_speed     \* has_speed of calc_scores: some Result has best_mbps > 0

qvars == <<q_pc, q_var, q_res, q_has_speed>>

VARIABLES
  x_pc,           \* the task in the proxy path of _test_single_variation:
                  \* "init", "starting", "speed", "alive" (returned
                  \* True), "dead" (returned False), "cancelled"
  x_th,           \* the executor thread that runs xp.start: "none",
                  \* "queued", "open_err", "popen", "assign", "poll",
                  \* "true", "false", "raised", "dropped"
  x_in,           \* what the environment lets succeed
  x_proc,         \* xp.proc is set
  x_os,           \* the subprocess: "none", "starting", "listening",
                  \* "exited", "terminated"
  x_cfg,          \* the config file exists
  x_err           \* the stderr file exists

xvars == <<x_pc, x_th, x_in, x_proc, x_os, x_cfg, x_err>>

VARIABLES
  b_pc,           \* _tls_probe: "init", "handshake", "validate", "close",
                  \* "returned"
  b_in,           \* its arguments and what the peer and the interpreter do
  b_hs,           \* history: the TLS handshake completed
  b_loc,          \* its locals tls_ms, is_cf, htxt, cf_err
  b_out           \* what it returned: latency_ms, is_cf, error

bvars == <<b_pc, b_in, b_hs, b_loc, b_out>>

VARIABLES
  m_lock,         \* CFRateLimiter._lock: 0 when free, else the coroutine
                  \* that holds it
  m_pc,           \* per coroutine: "idle", "wait_blocked", "wait_budget"
  m_acc           \* history: the accesses made to count, window_start and
                  \* blocked_until, each with the place, the field, whether
                  \* it writes and whether its coroutine held the lock

mvars == <<m_lock, m_pc, m_acc>>

VARIABLES
  o_pc,           \* the task of _test_single_variation: "init", "awaiting"
                  \* (the speed test), "writing", "done"
  o_in,           \* the path taken and what the awaited speed test returns
  o_var,          \* the XrayVariation under test
  o_wi,           \* how many of its writes the task has made
  o_seen          \* history: what the other tasks read of the variation,
                  \* with the number of writes made before the read

ovars == <<o_pc, o_in, o_var, o_wi, o_seen>>

VARIABLES
  k_pc,           \* per worker of phase2_round.go: "loop" (not yet run),
                  \* "next" (running, at the top of the loop after a failed
                  \* attempt), "rlim" (suspended inside rlim.acquire), "sem"
                  \* (suspended in sem.acquire), "dl" (inside _dl_one), "done"
  k_att,          \* per worker: the value of attempt
  k_force,        \* per worker: force_cdn
  k_best,         \* per worker: best_mbps_this
  k_last_err,     \* per worker: last_err
  k_sem,          \* the free slots of sem
  k_res,          \* per worker: the fields of st.res[ip] that go writes
  k_done_count,   \* st.done_count
  k_hosts,        \* history, per worker: use_host of each attempt that
                  \* passed the check of line 3785
  k_outs,         \* history, per worker: what _dl_one returned, per download
  k_rep,          \* history, per worker: the values it passed to
                  \* rlim.report_429
  k_seen          \* history, per worker: would_block() as seen by the
                  \* attempts that called rlim.acquire, and whether the
                  \* worker left the loop at a check of st.interrupted

kvars == <<k_pc, k_att, k_force, k_best, k_last_err, k_sem, k_res,
           k_done_count, k_hosts, k_outs, k_rep, k_seen>>

VARIABLES
  n_pc,           \* the caller of _vless_ws_read_tunnel: "call" (about to
                  \* call it), "read" (it waits in reader.read), "done"
  n_in,           \* the bytes the server writes into the tunnel, and the
                  \* pieces it sends them in, one WebSocket frame per piece
  n_sent,         \* the number of frames received
  n_buf,          \* _WsFrameParser._buf
  n_vless,        \* vless_hdr_done
  n_inner,        \* history: the bytes returned to the caller so far
  n_ret           \* the reason returned with closed = True

nvars == <<n_pc, n_in, n_sent, n_buf, n_vless, n_inner, n_ret>>

VARIABLES
  u_pc,           \* _vless_ws_speed_test: "hdr" (in the loop that reads the
                  \* answer to the upgrade), "tunnel" (past line 1969),
                  \* "done" (returned)
  u_in,           \* what the server answers, piece by piece, and whether
                  \* uuid_str is a UUID
  u_pos,          \* the pieces of the answer read so far
  u_hdr,          \* hdr_buf
  u_late,         \* the clock is past hdr_end
  u_wrote,        \* history: what was written to the socket
  u_ret           \* the return value: mbps and error

uvars == <<u_pc, u_in, u_pos, u_hdr, u_late, u_wrote, u_ret>>

VARIABLES
  y_pc,           \* the task of scan_clean_ips: "created" (not yet run),
                  \* "gather" (in the gather of line 3369), "collected" (its
                  \* caller has the result list)
  y_in,           \* per probe the latency _tls_probe measures (0: the probe
                  \* fails), the slots of the semaphore, and whether the
                  \* signal handler cancels the task itself (8693) or asks
                  \* the loop to (4640)
  y_task,         \* per probe task: "created", "wait_sem", "probing",
                  \* "finished", "returned", "cancelled"
  y_sem,          \* the free slots of sem
  y_intr,         \* cs.interrupted
  y_cancel,       \* the cancellation of the scan task is requested
  y_results,      \* results, which cs.all_results refers to once set
  y_ret           \* the list the caller has after `await scan_task`

yvars == <<y_pc, y_in, y_task, y_sem, y_intr, y_cancel, y_results, y_ret>>

VARIABLES
  z_pc,           \* per variation test on the xray path: "init", "starting"
                  \* (xp.start runs in the executor, xray not yet spawned),
                  \* "spawned" (xray runs, start polls the port), "testing"
                  \* (in xray_speed_test), "done"
  z_port,         \* per test: the port _find_free_ports returned, 0 before
  z_bound,        \* per port: the test whose xray listens on it, 0 if none
  z_file,         \* per port: the test whose configuration xray_<port>.json
                  \* holds, 0 when the file does not exist
  z_runs          \* per test: the test whose configuration its xray has
                  \* loaded, 0 when it has none

zvars == <<z_pc, z_port, z_bound, z_file, z_runs>>

VARIABLES
  a_in,           \* the bytes the server sends
  a_pos,          \* how many of them have been passed to the parser
  a_buf,          \* _WsFrameParser._buf
  a_out,          \* the (opcode, payload) frames next_frame has returned
  a_last,         \* the last call: "new", "feed", "frame" or "none"
  a_cut           \* whether next_frame has returned None on a buffer that
                  \* held the first bytes of a frame

avars == <<a_in, a_pos, a_buf, a_out, a_last, a_cut>>

VARIABLES
  j_pc,           \* where xray_pipeline_test stands: at an await
                  \* ("preflight", "scan", "uri_test", "base_gather",
                  \* "fb_test", "exp_gather"), at a point of its synchronous
                  \* code, or ended: "returned", "cancelled", "raised"
  j_in,           \* the run: the kind of the config, config-less mode, the
                  \* numbers of base URIs, of base tests and of expansion
                  \* variations
  j_status,       \* xst.pipeline_stages[i]["status"], i = 0..2
  j_finished,     \* xst.finished
  j_self,         \* whether xray_pipeline_test has run one of its own
                  \* xst.finished = True
  j_intr,         \* xst.interrupted
  j_i,            \* the index of the loops over base URIs and fallback SNIs
  j_left,         \* variations not yet handed to a gather
  j_task,         \* the tasks of the gather: how many are created, how
                  \* many testing, whether one has returned untested
  j_working       \* whether xst.working_ips is non-empty

jvars == <<j_pc, j_in, j_status, j_finished, j_self, j_intr, j_i, j_left,
           j_task, j_working>>

\* the parts after these
more == <<evars, qvars, xvars, bvars, mvars, ovars, kvars, nvars, uvars, yvars, zvars, avars, jvars>>

vars == <<lvars, svars, gvars, tvars, cvars, fvars, later, more>>

\* what the steps of one part leave alone
nonLimiter == <<svars, gvars, tvars, cvars, fvars, later, more>>
nonScan == <<lvars, gvars, tvars, cvars, fvars, later, more>>
nonGen == <<lvars, svars, tvars, cvars, fvars, later, more>>
nonTest == <<lvars, svars, gvars, cvars, fvars, later, more>>
nonCfIps == <<lvars, svars, gvars, tvars, fvars, later, more>>
nonFreeform == <<lvars, svars, gvars, tvars, cvars, later, more>>
first == <<lvars, svars, gvars, tvars, cvars, fvars>>
nonPipe == <<first, rvars, hvars, dvars, wvars, more>>
nonRounds == <<first, pvars, hvars, dvars, wvars, more>>
nonSpeed == <<first, pvars, rvars, dvars, wvars, more>>
nonDedup == <<first, pvars, rvars, hvars, wvars, more>>
nonTunnel == <<first, pvars, rvars, hvars, dvars, more>>
nonWaves == <<first, later, qvars, xvars, bvars, mvars, ovars, kvars, nvars, uvars, yvars, zvars, avars, jvars>>
nonScores == <<first, later, evars, xvars, bvars, mvars, ovars, kvars, nvars, uvars, yvars, zvars, avars, jvars>>
nonProxy == <<first, later, evars, qvars, bvars, mvars, ovars, kvars, nvars, uvars, yvars, zvars, avars, jvars>>
nonProbe == <<first, later, evars, qvars, xvars, mvars, ovars, kvars, nvars, uvars, yvars, zvars, avars, jvars>>
nonObserved == <<first, later, evars, qvars, xvars, bvars, mvars, kvars, nvars, uvars, yvars, zvars, avars, jvars>>
nonFinish == <<first, later, evars, qvars, xvars, bvars, mvars, ovars, kvars, nvars, uvars, yvars, zvars, avars>>
nonParser == <<first, later, evars, qvars, xvars, bvars, mvars, ovars, kvars, nvars, uvars, yvars, zvars, jvars>>
nonPorts == <<first, later, evars, qvars, xvars, bvars, mvars, ovars, kvars, nvars, uvars, yvars, avars, jvars>>
nonPartial == <<first, later, evars, qvars, xvars, bvars, mvars, ovars, kvars, nvars, uvars, zvars, avars, jvars>>
nonUpgrade == <<first, later, evars, qvars, xvars, bvars, mvars, ovars, kvars, nvars, yvars, zvars, avars, jvars>>
nonStrip == <<first, later, evars, qvars, xvars, bvars, mvars, ovars, kvars, uvars, yvars, zvars, avars, jvars>>
nonFunnel == <<svars, gvars, tvars, cvars, fvars, later, evars, qvars, xvars, bvars, mvars, ovars, nvars, uvars, yvars, zvars, avars, jvars>>
nonMutex == <<first, later, evars, qvars, xvars, bvars, ovars, kvars, nvars, uvars, yvars, zvars, avars, jvars>>

\* ------------------------------------------------------------ CFRateLimiter

\* A limiter as constructed (lines 738-742) at time 1.
LFresh ==
  /\ count = 0
  /\ window_start = 0

\* The limiter after BUDGET - 1 acquire calls made at time 1 on a fresh
\* limiter: none of them waits, the first sets window_start (line 781).
LNearBudget ==
  /\ count = BUDGET - 1
  /\ window_start = 1

LRest ==
  /\ blocked_until = 0
  /\ now = 1
  /\ interrupted = FALSE
  /\ pc = [p \in Procs |-> "idle"]
  /\ due = [p \in Procs |-> FALSE]
  /\ wait_until = [p \in Procs |-> 0]
  /\ saved_window = [p \in Procs |-> 0]
  /\ nshort = 0
  /\ ncalls = 0
  /\ nreports = 0
  /\ ev = [op |-> "init"]
  /\ roll_reset = [p \in Procs |-> -1]

\* report_429, line 824
CappedFloorOnly(retry_after) == Max(retry_after, 30)
Capped(retry_after) == Min(Max(retry_after, 30), 600)

\* report_429, lines 825-827: the value blocked_until has after the call
NewBlockedAlways(retry_after) == now + Capped(retry_after)
NewBlocked(retry_after) ==
  LET until == now + Capped(retry_after)
  IN  IF until > blocked_until THEN until ELSE blocked_until

Report429(retry_after) ==
  /\ UNCHANGED nonLimiter
  /\ nreports < MaxReports
  /\ nreports' = nreports + 1
  /\ blocked_until' = NewBlocked(retry_after)
  /\ ev' = [op |-> "report_429", ra |-> retry_after, prev |-> blocked_until]
  /\ UNCHANGED <<count, window_start, now, interrupted, pc, due, wait_until,
                 saved_window, nshort, ncalls, roll_reset>>

\* would_block, lines 810-818
WouldBlockValue ==
  IF blocked_until > 0 /\ now < blocked_until THEN TRUE
  ELSE IF window_start > 0 /\ now - window_start < WINDOW /\ count >= BUDGET
       THEN TRUE
       ELSE FALSE

WouldBlock ==
  /\ UNCHANGED nonLimiter
  /\ ev' = [op |-> "would_block", res |-> WouldBlockValue]
  /\ UNCHANGED <<count, window_start, blocked_until, now, interrupted, pc,
                 due, wait_until, saved_window, nshort, ncalls, nreports, roll_reset>>

\* acquire, lines 774-785: the fields after the expired-block reset, the
\* first-use initialisation and the window rollover
AfterRecheck ==
  LET exp == blocked_until > 0 /\ now >= blocked_until
      c1  == IF exp THEN 0 ELSE count
      w1  == IF exp THEN now ELSE window_start
      b1  == IF exp THEN 0 ELSE blocked_until
      w2  == IF w1 = 0 THEN now ELSE w1
      roll == now - w2 >= WINDOW
  IN  [c |-> IF roll THEN 0 ELSE c1, w |-> IF roll THEN now ELSE w2, b |-> b1]

\* acquire, line 787
Exhausted(c) == c >= BUDGET

\* acquire, line 799: the waiter resets only if the window it saw is current
SameWindowAlways(p) == TRUE
SameWindow(p) == window_start = saved_window[p]

\* acquire, lines 771-808, entered with the lock free
Locked(p) ==
  LET r == AfterRecheck
      remaining == WINDOW - (now - r.w)
  IN  IF Exhausted(r.c) /\ remaining > 0 /\ ~interrupted
      THEN \* lines 791-795: release the lock, first sleep of _wait_budget
           /\ count' = r.c
           /\ window_start' = r.w
           /\ blocked_until' = r.b
           /\ pc' = [pc EXCEPT ![p] = "wait_budget"]
           /\ due' = [due EXCEPT ![p] = FALSE]
           /\ wait_until' = [wait_until EXCEPT ![p] = r.w + WINDOW]
           /\ saved_window' = [saved_window EXCEPT ![p] = r.w]
           /\ ev' = [op |-> "wait", proc |-> p]
           /\ UNCHANGED roll_reset
      ELSE \* no wait; or _wait_budget returns at once (interrupted) and the
           \* window seen is still current (lines 799-801); or lines 803-804
           /\ count' = IF Exhausted(r.c) THEN 1 ELSE r.c + 1
           /\ window_start' = IF Exhausted(r.c) THEN now ELSE r.w
           /\ blocked_until' = r.b
           /\ pc' = [pc EXCEPT ![p] = "idle"]
           /\ due' = [due EXCEPT ![p] = FALSE]
           /\ wait_until' = [wait_until EXCEPT ![p] =
                               IF Exhausted(r.c) /\ remaining > 0
                               THEN r.w + WINDOW ELSE @]
           /\ saved_window' = [saved_window EXCEPT ![p] =
                               IF Exhausted(r.c) /\ remaining > 0
                               THEN r.w ELSE @]
           /\ ev' = [op |-> "acquired", proc |-> p, waited |-> FALSE]
           /\ UNCHANGED roll_reset

\* acquire called, lines 764-771
Acquire(p) ==
  /\ UNCHANGED nonLimiter
  /\ pc[p] = "idle"
  /\ IF blocked_until > 0 /\ now < blocked_until /\ ~interrupted
     THEN \* _wait_blocked: first sleep
          /\ pc' = [pc EXCEPT ![p] = "wait_blocked"]
          /\ due' = [due EXCEPT ![p] = FALSE]
          /\ ev' = [op |-> "wait", proc |-> p]
          /\ UNCHANGED <<count, window_start, blocked_until, wait_until,
                         saved_window, roll_reset>>
     ELSE Locked(p)
  /\ ncalls' = Min(ncalls + 1, MaxCalls)
  /\ UNCHANGED <<now, interrupted, nshort, nreports>>

\* _wait_blocked, lines 746-752: the sleep returns
WakeBlocked(p) ==
  /\ UNCHANGED nonLimiter
  /\ pc[p] = "wait_blocked"
  /\ due[p]
  /\ IF now < blocked_until /\ ~interrupted
     THEN /\ due' = [due EXCEPT ![p] = FALSE]
          /\ ev' = [op |-> "wait", proc |-> p]
          /\ UNCHANGED <<count, window_start, blocked_until, pc, wait_until,
                         saved_window, roll_reset>>
     ELSE Locked(p)
  /\ UNCHANGED <<now, interrupted, nshort, ncalls, nreports>>

\* _wait_budget, lines 756-762, then acquire, lines 797-808
WakeBudget(p) ==
  /\ UNCHANGED nonLimiter
  /\ pc[p] = "wait_budget"
  /\ due[p]
  /\ IF now < wait_until[p] /\ ~interrupted
     THEN /\ due' = [due EXCEPT ![p] = FALSE]
          /\ ev' = [op |-> "wait", proc |-> p]
          /\ UNCHANGED <<count, window_start, blocked_until, pc, wait_until,
                         saved_window, roll_reset>>
     ELSE /\ count' = IF SameWindow(p) THEN 1 ELSE count + 1
          /\ window_start' = IF SameWindow(p) THEN now ELSE window_start
          /\ roll_reset' = [roll_reset EXCEPT ![p] =
                              IF SameWindow(p) /\ now >= wait_until[p]
                              THEN saved_window[p] ELSE @]
          /\ pc' = [pc EXCEPT ![p] = "idle"]
          /\ due' = [due EXCEPT ![p] = FALSE]
          /\ ev' = [op |-> "acquired", proc |-> p, waited |-> TRUE]
          /\ UNCHANGED <<blocked_until, wait_until, saved_window>>
  /\ UNCHANGED <<now, interrupted, nshort, ncalls, nreports>>

\* the instants at which a comparison of the code changes its value
Deadlines ==
  {blocked_until, window_start + WINDOW} \cup {wait_until[p] : p \in Procs}

\* the clock advances: by 1 s, or to the next deadline
Tick ==
  /\ UNCHANGED nonLimiter
  /\ \E t \in {now + 1} \cup {d \in Deadlines : d > now} :
       /\ t <= MaxNow
       /\ t = now + 1 => nshort < MaxShort
       /\ now' = t
       /\ nshort' = IF t = now + 1 THEN nshort + 1 ELSE nshort
  /\ due' = [p \in Procs |-> pc[p] # "idle"]
  /\ ev' = [op |-> "tick"]
  /\ UNCHANGED <<count, window_start, blocked_until, interrupted, pc,
                 wait_until, saved_window, ncalls, nreports, roll_reset>>

\* Ctrl+C: st.interrupted is set
Interrupt ==
  /\ UNCHANGED nonLimiter
  /\ ~interrupted
  /\ interrupted' = TRUE
  /\ ev' = [op |-> "interrupt"]
  /\ UNCHANGED <<count, window_start, blocked_until, now, pc, due,
                 wait_until, saved_window, nshort, ncalls, nreports, roll_reset>>

LNext ==
  \/ \E p \in Procs : ncalls < MaxCalls /\ Acquire(p)
  \/ \E p \in Procs : WakeBlocked(p)
  \/ \E p \in Procs : WakeBudget(p)
  \/ \E ra \in RetryAfters : Report429(ra)
  \/ WouldBlock
  \/ Tick
  \/ Interrupt

\* every operation of the limiter, a bounded number of acquire calls
\* the other parts of the program have not started
ScanIdle ==
  /\ sc_kind = "none"
  /\ sc_pc = "init"
  /\ sc_total = 0
  /\ sc_done = 0
  /\ sc_found = 0
  /\ sc_intr = FALSE
  /\ sc_cancel = FALSE
  /\ sc_task = [t \in 1..0 |-> "none"]
  /\ sc_sem = 0

GenIdle ==
  /\ g_pc = "init"
  /\ g_in = [none |-> TRUE]
  /\ g_out = << >>

\* XrayVariation as constructed, lines 633-648
NewVariation ==
  [alive |-> FALSE, connect_ms |-> -1, ttfb_ms |-> -1, speed_mbps |-> -1,
   error |-> "", native_tested |-> FALSE]

TestIdle ==
  /\ t_pc = "init"
  /\ t_size = 0
  /\ t_env = [path |-> "none"]
  /\ t_var = NewVariation
  /\ t_xray = "none"

CfIpsIdle ==
  /\ c_pc = "init"
  /\ c_in = [subnets |-> << >>, sample |-> 0]
  /\ c_ips = << >>

FreeformIdle ==
  /\ f_pc = "init"
  /\ f_in = << >>
  /\ f_out = << >>

PipeIdle ==
  /\ p_pc = "init"
  /\ p_in = [none |-> TRUE]
  /\ p_intr = FALSE
  /\ p_stage = 0
  /\ p_task = << >>
  /\ p_working = << >>
  /\ p_variations = << >>
  /\ p_sni = ""
  /\ p_fb = 0
  /\ p_exp_ips = << >>
  /\ p_exp = << >>
  /\ p_ci = 0
  /\ p_dec = [made |-> FALSE, base_failed |-> FALSE, intr |-> FALSE]

RoundsIdle ==
  /\ r_pc = "init"
  /\ r_in = [none |-> TRUE]
  /\ r_intr = FALSE
  /\ r_cut_n = 0
  /\ r_alive = 0
  /\ r_rounds = << >>
  /\ r_cur = 0
  /\ r_cands = 0
  /\ r_tested = << >>

SpeedIdle ==
  /\ h_in = [none |-> TRUE]
  /\ h_intr = FALSE
  /\ h_sem = 0
  /\ h_at = [none |-> 0]

DedupIdle ==
  /\ d_in = [none |-> TRUE]
  /\ d_pc = "init"
  /\ d_results = << >>
  /\ d_stage = "init"
  /\ d_live_ips = << >>
  /\ d_live_ip_ports = << >>

\* no error, and the error made of a kind and a number
NoError == [kind |-> "", code |-> 0]
Err(kind, code) == [kind |-> kind, code |-> code]

TunnelIdle ==
  /\ w_pc = "start"
  /\ w_in = [none |-> TRUE]
  /\ w_pos = 0
  /\ w_buf = << >>
  /\ w_vless = FALSE
  /\ w_http = FALSE
  /\ w_http_buf = << >>
  /\ w_body = 0
  /\ w_late = FALSE
  /\ w_ret = [connect_ms |-> -1, ttfb_ms |-> -1, mbps |-> 0, error |-> NoError]

WavesIdle ==
  /\ e_pc = "init"
  /\ e_in = [n_base |-> 0, n_exp |-> 0]
  /\ e_ci = 0
  /\ e_at = [created |-> 0, wait |-> 0, testing |-> 0, done |-> 0]
  /\ e_intr = FALSE
  /\ e_waves = << >>

\* XrayVariation (634-648) and Result (589-601) as constructed: nothing
\* measured, no error, score 0.  Speeds are in thousandths of a Mbps, the
\* error is its length.
UnscoredVariation ==
  [alive |-> FALSE, connect_ms |-> -1, ttfb_ms |-> -1, speed_mbps |-> -1000,
   error_len |-> 0, native_tested |-> FALSE, score |-> 0]
UnscoredResult ==
  [alive |-> FALSE, tls_ms |-> -1, ttfb_ms |-> -1, best_mbps |-> -1000,
   error_len |-> 0, score |-> 0]
ScoresIdle ==
  /\ q_pc = "init"
  /\ q_var = UnscoredVariation
  /\ q_res = UnscoredResult
  /\ q_has_speed = FALSE
ProxyIdle ==
  /\ x_pc = "init"
  /\ x_th = "none"
  /\ x_in = [none |-> TRUE]
  /\ x_proc = FALSE
  /\ x_os = "none"
  /\ x_cfg = FALSE
  /\ x_err = FALSE
NoLocals == [tls_ms |-> -1, is_cf |-> FALSE, htxt |-> "", cf_err |-> ""]
NoOutput == [latency_ms |-> -1, is_cf |-> FALSE, error |-> "none"]
ProbeIdle ==
  /\ b_pc = "init"
  /\ b_in = [none |-> TRUE]
  /\ b_hs = FALSE
  /\ b_loc = NoLocals
  /\ b_out = NoOutput
MutexIdle ==
  /\ m_lock = 0
  /\ m_pc = [p \in Procs |-> "none"]
  /\ m_acc = {}
ObservedIdle ==
  /\ o_pc = "init"
  /\ o_in = [none |-> TRUE]
  /\ o_var = UnscoredVariation
  /\ o_wi = 0
  /\ o_seen = {}
\* the workers of a funnel round: those of the limiter that run go
MaxGo == 2
Goers == {p \in Procs : p <= MaxGo}

\* st.res[ip] as phase 1 leaves it for an alive IP
AliveResult == [speeds |-> <<>>, best_mbps |-> -1, error |-> ""]

FunnelIdle ==
  /\ k_pc = [p \in Goers |-> "loop"]
  /\ k_att = [p \in Goers |-> 0]
  /\ k_force = [p \in Goers |-> FALSE]
  /\ k_best = [p \in Goers |-> 0]
  /\ k_last_err = [p \in Goers |-> ""]
  /\ k_sem = 1
  /\ k_res = [p \in Goers |-> AliveResult]
  /\ k_done_count = 0
  /\ k_hosts = [p \in Goers |-> <<>>]
  /\ k_outs = [p \in Goers |-> <<>>]
  /\ k_rep = [p \in Goers |-> <<>>]
  /\ k_seen = [p \in Goers |-> [wb |-> <<>>, early |-> FALSE]]
StripIdle ==
  /\ n_pc = "done"
  /\ n_in = [stream |-> << >>, pieces |-> << >>]
  /\ n_sent = 0
  /\ n_buf = << >>
  /\ n_vless = FALSE
  /\ n_inner = << >>
  /\ n_ret = NoError
UpgradeIdle ==
  /\ u_pc = "done"
  /\ u_in = [resp |-> << >>, uuid_ok |-> TRUE]
  /\ u_pos = 0
  /\ u_hdr = << >>
  /\ u_late = FALSE
  /\ u_wrote = << >>
  /\ u_ret = [mbps |-> 0, error |-> NoError]
PartialIdle ==
  /\ y_pc = "collected"
  /\ y_in = [lat |-> << >>, workers |-> 1, direct |-> FALSE]
  /\ y_task = << >>
  /\ y_sem = 0
  /\ y_intr = FALSE
  /\ y_cancel = FALSE
  /\ y_results = << >>
  /\ y_ret = << >>
\* line 102: the first local SOCKS port
XRAY_BASE_PORT == 10900

\* the variation tests that one gather runs, and the ports they can get
MaxPortTests == 3
PortTests == 1..MaxPortTests
PortPool == XRAY_BASE_PORT..(XRAY_BASE_PORT + MaxPortTests)

PortsIdle ==
  /\ z_pc = [t \in PortTests |-> "done"]
  /\ z_port = [t \in PortTests |-> 0]
  /\ z_bound = [p \in PortPool |-> 0]
  /\ z_file = [p \in PortPool |-> 0]
  /\ z_runs = [t \in PortTests |-> 0]
ParserIdle ==
  /\ a_in = << >>
  /\ a_pos = 0
  /\ a_buf = << >>
  /\ a_out = << >>
  /\ a_last = "new"
  /\ a_cut = FALSE

NoTask == [created |-> 0, testing |-> 0, returned |-> FALSE]

FinishIdle ==
  /\ j_pc = "returned"
  /\ j_in = [kind |-> "cf", configless |-> FALSE, uris |-> 0, base |-> 0,
             exp |-> 0]
  /\ j_status = <<"pending", "pending", "pending">>
  /\ j_finished = TRUE
  /\ j_self = FALSE
  /\ j_intr = FALSE
  /\ j_i = 0
  /\ j_left = 0
  /\ j_task = NoTask
  /\ j_working = FALSE
MoreIdle == WavesIdle /\ ScoresIdle /\ ProxyIdle /\ ProbeIdle /\ MutexIdle /\ ObservedIdle /\ FunnelIdle /\ StripIdle /\ UpgradeIdle /\ PartialIdle /\ PortsIdle /\ ParserIdle /\ FinishIdle

LaterIdle == PipeIdle /\ RoundsIdle /\ SpeedIdle /\ DedupIdle /\ TunnelIdle

ExpandIdle == CfIpsIdle /\ FreeformIdle

LimiterIdle == LFresh /\ LRest

FirstIdle == LimiterIdle /\ ScanIdle /\ GenIdle /\ TestIdle /\ ExpandIdle

LInit == (LFresh \/ LNearBudget) /\ LRest /\ ScanIdle /\ GenIdle /\ TestIdle /\ ExpandIdle
  /\ LaterIdle /\ MoreIdle

SpecLimiter == LInit /\ [][LNext]_vars

\* acquire alone, any number of calls by MaxBudgetProcs coroutines, from
\* the fresh limiter
BNext ==
  \/ \E p \in 1..MaxBudgetProcs : Acquire(p)
  \/ \E p \in 1..MaxBudgetProcs : WakeBudget(p)
  \/ Tick

BInit == LFresh /\ LRest /\ ScanIdle /\ GenIdle /\ TestIdle /\ ExpandIdle
  /\ LaterIdle /\ MoreIdle

SpecBudget == BInit /\ [][BNext]_vars

\* ------------------------------------------------- claims on CFRateLimiter

\* C1: whenever the current window has not expired and no 429 block is
\* active, count is at most BUDGET.
C1_CountWithinBudget ==
  (now - window_start < WINDOW /\ now >= blocked_until) => count <= BUDGET

\* C2: with no report_429 and no interrupt, once BUDGET acquire calls have
\* completed in the current window, no further acquire call completes (count
\* does not change) before the clock reaches window_start + WINDOW.
C2_No551stInWindow ==
  [][(count = BUDGET /\ now < window_start + WINDOW) => count' = count]_vars

\* C3: right after report_429(retry_after), blocked_until is the larger of
\* its previous value and now + min(max(retry_after, 30), 600); with no
\* longer block in place 3600 gives now + 600 and 5 gives now + 30.
C3_Report429Clamp ==
  ev.op = "report_429" =>
    /\ blocked_until = Max(ev.prev, now + Min(Max(ev.ra, 30), 600))
    /\ (ev.ra = 3600 /\ ev.prev <= now + 600) => blocked_until = now + 600
    /\ (ev.ra = 5 /\ ev.prev <= now + 30) => blocked_until = now + 30

\* a 3600 s Retry-After reported on top of a shorter, still active block
C3_Witness ==
  /\ ev.op = "report_429"
  /\ ev.ra = 3600
  /\ ev.prev > now
  /\ ev.prev < now + 600
  /\ blocked_until = now + 600

\* C4: while a 429 block is active (now < blocked_until) no step lowers or
\* clears blocked_until.
C4_BlockNeverShortened ==
  [][now < blocked_until => blocked_until' >= blocked_until]_vars

\* a 429 whose clamped delay ends before the block already in place
C4_Witness ==
  /\ ev.op = "report_429"
  /\ ev.prev > now + Min(Max(ev.ra, 30), 600)
  /\ blocked_until = ev.prev

\* C5: a coroutine that returns from its budget wait after another coroutine
\* has already reset count for the window both waited on adds exactly its own
\* request to count: it does not reset count a second time.
C5_SingleReset ==
  [][\A p \in Procs :
       ( /\ pc[p] = "wait_budget"
         /\ pc'[p] = "idle"
         /\ \E q \in Procs \ {p} : roll_reset[q] = saved_window[p] )
       => count' = count + 1]_vars

\* two coroutines waited on the same window; one reset count, then the other
\* returned, and count is 2
C5_Witness ==
  /\ ev.op = "acquired"
  /\ ev.waited
  /\ roll_reset[ev.proc] # saved_window[ev.proc]
  /\ \E q \in Procs \ {ev.proc} : roll_reset[q] = saved_window[ev.proc]
  /\ count = 2

\* C26: without an interrupt, no acquire call returns (counts its request)
\* at a time when now < blocked_until, whatever the interleaving of the
\* acquire calls with report_429, a 429 reported during a budget wait
\* included.
C26_NoAcquireWhileBlocked ==
  (ev.op = "acquired" /\ ~interrupted) => now >= blocked_until

\* the same for the calls that did not wait for the window to roll over
C26_NoAcquireWhileBlockedUnlessWaited ==
  (ev.op = "acquired" /\ ~ev.waited /\ ~interrupted) => now >= blocked_until

(***************************************************************************)
(* Part 2: the three probe scans.  scan_clean_ips (3315-3378), phase1      *)
(* (3552-3585) and Stage 1 of xray_pipeline_test (2797-2817) each create   *)
(* one task per target, bound them by a semaphore and gather them.  Ctrl+C *)
(* sets the interrupt flag and asks for the scan task to be cancelled      *)
(* (4638-4640, 5206-5209, 8462-8465); the cancellation reaches the gather  *)
(* at a later turn of the event loop.  A scan of at most MaxProbes probes  *)
(* fits in one batch of scan_clean_ips (BATCH = 50,000).                   *)
(***************************************************************************)
Kinds == {"clean", "latency", "pipeline"}

ScanInit ==
  /\ sc_kind \in Kinds
  /\ sc_pc = "init"
  /\ sc_total = 0
  /\ sc_done = 0
  /\ sc_found = 0
  /\ sc_intr = FALSE
  /\ sc_cancel = FALSE
  /\ sc_task = [t \in 1..0 |-> "none"]
  /\ sc_sem = 0

Ended(st) == st \in {"finished", "returned", "cancelled"}

\* 3332-3367, 3553-3577, 2797-2817: total is set, done is cleared, the tasks
\* are created.  scan_clean_ips does not create them when the flag is
\* already set (3364).
ScanBegin(n, w) ==
  /\ sc_pc = "init"
  /\ sc_total' = n
  /\ sc_done' = 0
  /\ sc_found' = 0
  /\ sc_sem' = w
  /\ IF sc_kind = "clean" /\ sc_intr
     THEN /\ sc_task' = [t \in 1..n |-> "returned"]
          /\ sc_pc' = "ended"
          /\ sc_cancel' = FALSE
     ELSE /\ sc_task' = [t \in 1..n |-> "created"]
          /\ sc_pc' = "gather"
          /\ UNCHANGED sc_cancel
  /\ UNCHANGED <<sc_kind, sc_intr>>
  /\ UNCHANGED nonScan

\* 3356, 3571, 2808/2814: a probe that ran is counted, alive or not
DoneAfterProbeAliveOnly(ok) == IF ok THEN sc_done + 1 ELSE sc_done
DoneAfterProbe(ok) == sc_done + 1

\* 3340-3341: probe of scan_clean_ips looks at the flag before the semaphore
ChecksBeforeSem == sc_kind = "clean"

\* a task runs up to its first suspension: 3339-3345, 3559-3566, 2801-2806
TaskStart(t) ==
  /\ sc_pc = "gather"
  /\ sc_task[t] = "created"
  /\ IF ChecksBeforeSem /\ sc_intr
     THEN sc_task' = [sc_task EXCEPT ![t] = "returned"] /\ UNCHANGED sc_sem
     ELSE IF sc_sem = 0
     THEN sc_task' = [sc_task EXCEPT ![t] = "wait_sem"] /\ UNCHANGED sc_sem
     ELSE IF sc_intr
     THEN sc_task' = [sc_task EXCEPT ![t] = "returned"] /\ UNCHANGED sc_sem
     ELSE sc_task' = [sc_task EXCEPT ![t] = "probing"] /\ sc_sem' = sc_sem - 1
  /\ UNCHANGED <<sc_kind, sc_pc, sc_total, sc_done, sc_found, sc_intr,
                 sc_cancel>>
  /\ UNCHANGED nonScan

\* a task gets its permit: 3342-3345, 3560-3566, 2802-2806
TaskGetSem(t) ==
  /\ sc_pc = "gather"
  /\ sc_task[t] = "wait_sem"
  /\ sc_sem > 0
  /\ IF sc_intr
     THEN sc_task' = [sc_task EXCEPT ![t] = "returned"] /\ UNCHANGED sc_sem
     ELSE sc_task' = [sc_task EXCEPT ![t] = "probing"] /\ sc_sem' = sc_sem - 1
  /\ UNCHANGED <<sc_kind, sc_pc, sc_total, sc_done, sc_found, sc_intr,
                 sc_cancel>>
  /\ UNCHANGED nonScan

\* the probe returns, alive (ok) or not: 3345-3356, 3566-3575, 2806-2815
TaskFinish(t, ok) ==
  /\ sc_pc = "gather"
  /\ sc_task[t] = "probing"
  /\ sc_task' = [sc_task EXCEPT ![t] = "finished"]
  /\ sc_sem' = sc_sem + 1
  /\ sc_done' = DoneAfterProbe(ok)
  /\ sc_found' = IF ok THEN sc_found + 1 ELSE sc_found
  /\ UNCHANGED <<sc_kind, sc_pc, sc_total, sc_intr, sc_cancel>>
  /\ UNCHANGED nonScan

\* gather returns: every task has returned (3369, 3579, 2817)
ScanGatherDone ==
  /\ sc_pc = "gather"
  /\ \A t \in DOMAIN sc_task : sc_task[t] \in {"finished", "returned"}
  /\ sc_pc' = "ended"
  /\ sc_cancel' = FALSE
  /\ UNCHANGED <<sc_kind, sc_total, sc_done, sc_found, sc_intr, sc_task,
                 sc_sem>>
  /\ UNCHANGED nonScan

\* Ctrl+C: 4638-4640, 8691-8693 (clean), 8462-8465 (latency), 5206-5209
\* (pipeline).  Only the clean scan can see the flag before its first step.
ScanInterrupt ==
  /\ ~sc_intr
  /\ sc_pc = "gather" \/ (sc_pc = "init" /\ sc_kind = "clean")
  /\ sc_intr' = TRUE
  /\ sc_cancel' = TRUE
  /\ UNCHANGED <<sc_kind, sc_pc, sc_total, sc_done, sc_found, sc_task,
                 sc_sem>>
  /\ UNCHANGED nonScan

\* the cancellation reaches the gather: every unfinished task is cancelled
\* (3370-3375, 3580-3585; gather cancels its children in the pipeline)
ScanCancelled ==
  /\ sc_cancel
  /\ sc_pc = "gather"
  /\ sc_task' = [t \in DOMAIN sc_task |->
                   IF Ended(sc_task[t]) THEN sc_task[t] ELSE "cancelled"]
  /\ sc_pc' = "ended"
  /\ sc_cancel' = FALSE
  /\ UNCHANGED <<sc_kind, sc_total, sc_done, sc_found, sc_intr, sc_sem>>
  /\ UNCHANGED nonScan

SNext ==
  \/ \E n \in 0..MaxProbes, w \in 1..MaxWorkers : ScanBegin(n, w)
  \/ \E t \in DOMAIN sc_task : TaskStart(t)
  \/ \E t \in DOMAIN sc_task : TaskGetSem(t)
  \/ \E t \in DOMAIN sc_task, ok \in BOOLEAN : TaskFinish(t, ok)
  \/ ScanGatherDone
  \/ ScanInterrupt
  \/ ScanCancelled

SInit == ScanInit /\ LimiterIdle /\ GenIdle /\ TestIdle /\ ExpandIdle
  /\ LaterIdle /\ MoreIdle

SpecScan == SInit /\ [][SNext]_vars

\* ------------------------------------------------------ claims on the scans

NumFinished == Cardinality({t \in DOMAIN sc_task : sc_task[t] = "finished"})

\* C6 as stated: done <= total always, and every scan that has ended, by
\* completion or by the interrupt flag, has done = total.
C6_DoneReachesTotal ==
  /\ sc_done <= sc_total
  /\ sc_pc = "ended" => sc_done = sc_total

\* C6 amended: done <= total always and done never decreases during a scan;
\* done is the number of probes that ran to their end; a scan that ends
\* without the interrupt flag has done = total, and a scan that was
\* interrupted ends with the probes that were skipped or cancelled uncounted.
C6_DoneCountsFinishedProbes ==
  /\ [](/\ sc_done <= sc_total
        /\ sc_pc # "init" => sc_done = NumFinished
        /\ (sc_pc = "ended" /\ ~sc_intr) => sc_done = sc_total)
  /\ [][sc_pc # "init" => sc_done' >= sc_done]_vars

\* an interrupted scan has ended with some probes counted and some not
C6_Witness ==
  /\ sc_pc = "ended"
  /\ sc_intr
  /\ sc_done > 0
  /\ sc_done < sc_total

(***************************************************************************)
(* Part 3: generate_pipeline_variations (2139-2321), a pure function.      *)
(* A fragment is None ("none") or a record of XRAY_FRAG_PRESETS; an SNI, a *)
(* host and a transport are strings; a server port and a local port are    *)
(* numbers.                                                                *)
(***************************************************************************)
MAX_PORT == 65535

RECURSIVE Flatten(_)
Flatten(ss) == IF ss = << >> THEN << >> ELSE Head(ss) \o Flatten(Tail(ss))

Take(s, n) == SubSeq(s, 1, Min(n, Len(s)))
Range(s) == {s[i] : i \in DOMAIN s}

NoFrag == [packets |-> "", length |-> "none", interval |-> ""]
Frag(len, int) == [packets |-> "tlshello", length |-> len, interval |-> int]

\* XRAY_FRAG_PRESETS, lines 161-181; an unknown preset name gives "all" (2206)
FragPreset(name) ==
  CASE name = "none"   -> <<NoFrag>>
    [] name = "light"  -> <<Frag("100-200", "10-20")>>
    [] name = "medium" -> <<Frag("50-100", "10-20"), Frag("100-200", "20-40")>>
    [] name = "heavy"  -> <<Frag("10-50", "5-10"), Frag("50-100", "10-30"),
                            Frag("100-300", "20-50")>>
    [] OTHER           -> <<NoFrag, Frag("100-200", "10-20"),
                            Frag("50-100", "10-30"), Frag("10-50", "5-10")>>

\* line 2265
FragLabel(frag) == frag.length

\* ipaddress.ip_address(host) succeeds (2190-2194)
IsIpLiteral(h) == h \in {"1.1.1.1"}

\* lines 2198-2200: pool entries not yet in the list are appended
RECURSIVE AppendNew(_, _)
AppendNew(list, pool) ==
  IF pool = << >> THEN list
  ELSE AppendNew(IF Head(pool) \in Range(list) THEN list
                 ELSE Append(list, Head(pool)), Tail(pool))

\* the SNI list built for a REALITY config as for a TLS one ("as" of a
\* mutation of EffectiveSnis)
EffectiveSnisRotating(in) ==
  LET host == IF in.host = "" /\ in.orig_sni # "" THEN in.orig_sni ELSE in.host
      e0 == IF host # "" /\ ~IsIpLiteral(host) THEN <<host>> ELSE << >>
      e1 == IF in.orig_sni # "" /\ in.orig_sni \notin Range(e0)
            THEN Append(e0, in.orig_sni) ELSE e0
  IN  AppendNew(e1, in.sni_pool)

\* lines 2171-2200
EffectiveSnis(in) ==
  LET host == IF in.host = "" /\ in.orig_sni # "" THEN in.orig_sni ELSE in.host
  IN  IF in.sec = "reality" THEN <<in.orig_sni>>
      ELSE IF in.sec = "none"
      THEN <<IF in.orig_sni # "" THEN in.orig_sni ELSE "address">>
      ELSE LET e0 == IF host # "" /\ ~IsIpLiteral(host) THEN <<host>> ELSE << >>
               e1 == IF in.orig_sni # "" /\ in.orig_sni \notin Range(e0)
                     THEN Append(e0, in.orig_sni) ELSE e0
           IN  AppendNew(e1, in.sni_pool)

\* lines 2203-2206
Fragments(in) ==
  IF in.sec \in {"none", "reality"} \/ in.vision
  THEN <<NoFrag>> ELSE FragPreset(in.frag_preset)

\* switch_transport, lines 1260-1313: the type of the switched config
SwitchType(otype, tv) ==
  CASE tv = "ws" -> "ws"
    [] tv \in {"xhttp", "splithttp"} -> "xhttp"
    [] tv = "grpc" -> "grpc"
    [] tv \in {"h2", "http"} -> "h2"
    [] tv = "tcp" -> "tcp"
    [] OTHER -> otype

\* switch_transport: xhttp keeps the mode of the config, the others drop it
SwitchMode(in, tv) ==
  IF tv \in {"xhttp", "splithttp"}
  THEN (IF in.omode = "" THEN "auto" ELSE in.omode) ELSE ""

\* lines 2209-2216
TransportConfigs(in) ==
  LET orig == <<[name |-> "orig", type |-> in.otype, mode |-> in.omode]>>
      tvs  == SelectSeq(in.variants, LAMBDA tv : tv # in.otype)
  IN  IF in.sec \in {"none", "reality"} THEN orig
      ELSE orig \o [i \in 1..Len(tvs) |->
                      [name |-> tvs[i], type |-> SwitchType(in.otype, tvs[i]),
                       mode |-> SwitchMode(in, tvs[i])]]

\* lines 2219-2225
XhttpModesUnfiltered(in) ==
  IF in.otype \in {"xhttp", "splithttp"}
  THEN <<"auto", "packet-up", "stream-up", "stream-down">> ELSE << >>
XhttpModes(in) ==
  IF in.otype \in {"xhttp", "splithttp"}
  THEN SelectSeq(<<"auto", "packet-up", "stream-up", "stream-down">>,
                 LAMBDA m : m # (IF in.omode = "" THEN "auto" ELSE in.omode))
  ELSE << >>

\* ip_ports.get(ip, [_orig_port]) if ip_ports else [_orig_port] (2294); an IP
\* with the empty list in in.ip_ports is absent from the dict
HasPortMap(in) == \E ip \in DOMAIN in.ip_ports : in.ip_ports[ip] # << >>
PortsOf(in, ip) ==
  IF HasPortMap(in) /\ in.ip_ports[ip] # << >>
  THEN in.ip_ports[ip] ELSE <<in.orig_port>>

RECURSIVE SumLens(_, _)
SumLens(in, ips) ==
  IF ips = << >> THEN 0
  ELSE Len(PortsOf(in, Head(ips))) + SumLens(in, Tail(ips))

\* lines 2230-2248: the budget
Budget(in) ==
  LET n_ips == Len(in.ips)
      avg_ports == IF HasPortMap(in)
                   THEN Max(1, SumLens(in, in.ips) \div n_ips) ELSE 1
      per_ip == Max(1, in.max_total \div n_ips)
      per_port == Max(1, per_ip \div avg_ports)
      snis_budget == Max(1, Min(Min(in.max_snis, per_port),
                                Len(EffectiveSnis(in))))
      n_frags_eff == Max(1, per_port \div Max(1, snis_budget))
      t_budget == Max(1, per_port \div Max(1, snis_budget * n_frags_eff))
  IN  [snis |-> Take(EffectiveSnis(in), snis_budget),
       frags |-> Take(Fragments(in), n_frags_eff),
       transports |-> Take(TransportConfigs(in), t_budget)]

\* _add_variation, line 2262: there is room for one more variation
HasRoomNoPortCheck(base_port, idx, n, max_total) == n < max_total
HasRoom(base_port, idx, n, max_total) ==
  ~(base_port + idx > MAX_PORT \/ n >= max_total)

\* _add_variation, lines 2264-2291: the variation appended as number idx
\* (pmode is the mode of the dict handed to build_xray_config: t_parsed's,
\* or _m for a mode variation, 2307-2308)
AddVariation(in, idx, c) ==
  [ip |-> c.ip, port |-> c.port, tname |-> c.t.name, ttype |-> c.t.type,
   sni |-> c.sni, frag |-> c.frag, mode |-> c.mode,
   pmode |-> IF c.mode # "" THEN c.mode ELSE c.t.mode,
   lport |-> in.base_port + idx]

\* build_xray_config, lines 1120-1156: the network of the stream settings of
\* a variation, and the mode of its xhttpSettings ("auto" when the key is
\* left out, 1153-1155)
NetworkOf(v) == IF v.ttype \in {"xhttp", "splithttp"} THEN "xhttp" ELSE v.ttype
XhttpModeOf(v) ==
  IF v.ttype \in {"xhttp", "splithttp"}
  THEN (IF v.pmode \in {"", "auto"} THEN "auto" ELSE v.pmode) ELSE ""

\* lines 2293-2311: the calls of _add_variation in the order of the loops
Calls(in) ==
  LET b == Budget(in)
      modes == XhttpModes(in)
      OfFrag(ip, port, t, sni, frag) ==
        <<[ip |-> ip, port |-> port, t |-> t, sni |-> sni, frag |-> frag,
           mode |-> ""]>>
        \o (IF modes # << >> /\ frag = NoFrag
                /\ t.type \in {"xhttp", "splithttp"}
            THEN [j \in 1..Len(modes) |->
                    [ip |-> ip, port |-> port, t |-> t, sni |-> sni,
                     frag |-> frag, mode |-> modes[j]]]
            ELSE << >>)
      OfSni(ip, port, t, sni) ==
        Flatten([k \in 1..Len(b.frags) |-> OfFrag(ip, port, t, sni, b.frags[k])])
      OfTransport(ip, port, t) ==
        Flatten([k \in 1..Len(b.snis) |-> OfSni(ip, port, t, b.snis[k])])
      OfPort(ip, port) ==
        Flatten([k \in 1..Len(b.transports) |->
                   OfTransport(ip, port, b.transports[k])])
      OfIp(ip) ==
        Flatten([k \in 1..Len(PortsOf(in, ip)) |->
                   OfPort(ip, PortsOf(in, ip)[k])])
  IN  Flatten([k \in 1..Len(in.ips) |-> OfIp(in.ips[k])])

\* What the calls leave in the list.  idx is the length of the list (2290),
\* and a refused call changes neither: once a call is refused, every later
\* one is, and the loops may as well stop (break, 2301-2319).  The list is
\* the calls before the first refused one, numbered from 0.
AddAll(in, calls) ==
  LET refused == { k \in 1..Len(calls) :
                     ~HasRoom(in.base_port, k - 1, k - 1, in.max_total) }
      n == IF refused = {} THEN Len(calls)
           ELSE (CHOOSE k \in refused : \A j \in refused : k <= j) - 1
  IN  [k \in 1..n |-> AddVariation(in, k - 1, calls[k])]

\* lines 2157-2158, 2255-2321
GeneratePipelineVariations(in) ==
  IF in.ips = << >> THEN << >> ELSE AddAll(in, Calls(in))

IpLists == UNION {[1..n -> 1..MaxIps] : n \in 0..MaxIps}
PortMaps ==
  { [ip \in 1..MaxIps |-> << >>],
    [ip \in 1..MaxIps |-> <<443, 8443>>],
    [ip \in 1..MaxIps |-> IF ip = 1 THEN <<443, 2053, 8443>> ELSE << >>] }
Configs ==
  { [sec |-> "tls", vision |-> FALSE, otype |-> "ws", omode |-> ""],
    [sec |-> "tls", vision |-> FALSE, otype |-> "xhttp", omode |-> "packet-up"],
    [sec |-> "tls", vision |-> FALSE, otype |-> "splithttp", omode |-> ""],
    [sec |-> "tls", vision |-> TRUE, otype |-> "tcp", omode |-> ""],
    [sec |-> "reality", vision |-> TRUE, otype |-> "tcp", omode |-> ""],
    [sec |-> "none", vision |-> FALSE, otype |-> "ws", omode |-> ""] }
Names ==
  { [host |-> "", orig_sni |-> "o"], [host |-> "h", orig_sni |-> "o"],
    [host |-> "h", orig_sni |-> "h"],
    [host |-> "1.1.1.1", orig_sni |-> "1.1.1.1"] }
SniPools == { << >>, <<"o", "s1", "s1", "s2">> }
FragPresetNames == {"none", "medium", "all"}
VariantLists ==
  { << >>, <<"ws", "xhttp">>, <<"xhttp", "splithttp">>,
    <<"splithttp", "grpc", "grpc">> }
Budgets ==
  { [max_total |-> 0, base_port |-> XRAY_BASE_PORT],
    [max_total |-> 1, base_port |-> XRAY_BASE_PORT],
    [max_total |-> 3, base_port |-> XRAY_BASE_PORT],
    [max_total |-> 200, base_port |-> XRAY_BASE_PORT],
    [max_total |-> 200, base_port |-> MAX_PORT - 1],
    [max_total |-> 3, base_port |-> MAX_PORT + 1] }

GenInput(ips, pm, c, nm, pool, fp, tv, b, ms) ==
  [ips |-> ips, ip_ports |-> pm, orig_port |-> 443,
   sec |-> c.sec, vision |-> c.vision, otype |-> c.otype, omode |-> c.omode,
   host |-> nm.host, orig_sni |-> nm.orig_sni, sni_pool |-> pool,
   frag_preset |-> fp, variants |-> tv,
   max_total |-> b.max_total, base_port |-> b.base_port, max_snis |-> ms]

GenInit ==
  /\ g_pc = "init"
  /\ \E ips \in IpLists, pm \in PortMaps, c \in Configs, nm \in Names,
        pool \in SniPools, fp \in FragPresetNames, tv \in VariantLists,
        b \in Budgets, ms \in {1, 10} :
        g_in = GenInput(ips, pm, c, nm, pool, fp, tv, b, ms)
  /\ g_out = << >>

Generate ==
  /\ g_pc = "init"
  /\ g_out' = GeneratePipelineVariations(g_in)
  /\ g_pc' = "done"
  /\ UNCHANGED g_in
  /\ UNCHANGED nonGen

GNext == Generate

GInit == GenInit /\ LimiterIdle /\ ScanIdle /\ TestIdle /\ ExpandIdle
  /\ LaterIdle /\ MoreIdle

SpecGen == GInit /\ [][GNext]_vars

\* --------------------------------------------------- claims on the generator

\* C7: the number of emitted variations is at most max_total, and every
\* local port given to a variation is base_port + its index and at most 65535.
C7_WithinBudgetAndPorts ==
  g_pc = "done" =>
    /\ Len(g_out) <= g_in.max_total
    /\ \A i \in DOMAIN g_out :
         /\ g_out[i].lport = g_in.base_port + (i - 1)
         /\ g_out[i].lport <= 65535

\* the port range, not the budget, ended the list: the last local port is
\* 65535 although max_total allowed more
C7_Witness ==
  /\ g_pc = "done"
  /\ Len(g_out) > 0
  /\ Len(g_out) < g_in.max_total
  /\ g_out[Len(g_out)].lport = 65535

\* the working IPs handed to the generator are pairwise different
DistinctIps == \A i, j \in DOMAIN g_in.ips : g_in.ips[i] = g_in.ips[j] => i = j

\* C19 as stated: no two emitted variations have the same (ip, port, sni,
\* fragment label, transport), for inputs with distinct working IPs.
C19_NoDuplicateTuple ==
  (g_pc = "done" /\ DistinctIps) =>
    \A i, j \in DOMAIN g_out :
      (/\ g_out[i].ip = g_out[j].ip
       /\ g_out[i].port = g_out[j].port
       /\ g_out[i].sni = g_out[j].sni
       /\ FragLabel(g_out[i].frag) = FragLabel(g_out[j].frag)
       /\ NetworkOf(g_out[i]) = NetworkOf(g_out[j])) => i = j

\* C19 amended: no two emitted variations have the same (ip, port, sni,
\* fragment label, transport, xhttp mode), for inputs with distinct working
\* IPs; the mode variations of an xhttp config share the other five.
C19_NoDuplicateWithMode ==
  (g_pc = "done" /\ DistinctIps) =>
    \A i, j \in DOMAIN g_out :
      (/\ g_out[i].ip = g_out[j].ip
       /\ g_out[i].port = g_out[j].port
       /\ g_out[i].sni = g_out[j].sni
       /\ FragLabel(g_out[i].frag) = FragLabel(g_out[j].frag)
       /\ NetworkOf(g_out[i]) = NetworkOf(g_out[j])
       /\ XhttpModeOf(g_out[i]) = XhttpModeOf(g_out[j])) => i = j

\* two distinct IPs with several ports each, variants xhttp and splithttp
\* asked for, and mode variations emitted that differ from their base
\* variation in the mode only
C19_Witness ==
  /\ g_pc = "done"
  /\ DistinctIps
  /\ Len(g_in.ips) = 2
  /\ g_in.variants = <<"xhttp", "splithttp">>
  /\ \E i, j \in DOMAIN g_out :
       /\ i # j
       /\ g_out[i].ip = g_out[j].ip
       /\ g_out[i].port = g_out[j].port
       /\ g_out[i].port # 443
       /\ g_out[i].sni = g_out[j].sni
       /\ g_out[i].frag = g_out[j].frag
       /\ NetworkOf(g_out[i]) = NetworkOf(g_out[j])
       /\ XhttpModeOf(g_out[i]) # XhttpModeOf(g_out[j])

\* the local ports base_port .. base_port + max_total - 1 all exist
PortsSuffice == g_in.base_port + g_in.max_total <= MAX_PORT + 1

\* C20: when max_total is at least the number of working IPs, every working
\* IP has at least one emitted variation.
C20_EveryIpCovered ==
  (/\ g_pc = "done"
   /\ DistinctIps
   /\ PortsSuffice
   /\ g_in.max_total >= Len(g_in.ips)) =>
    \A k \in DOMAIN g_in.ips : \E i \in DOMAIN g_out : g_out[i].ip = g_in.ips[k]

(***************************************************************************)
(* Part 4: _test_single_variation (2403-2497) with its two probers.        *)
(* Durations are whole milliseconds and sizes are bytes.  A speed is kept  *)
(* in bytes per second, rounded up, so that it is positive exactly when    *)
(* the float of the code is: 1 MB/s of the code is 1000000 here.  The time *)
(* a prober measures from t0 to the end of its handshakes (TCP, TLS, and   *)
(* WebSocket or SOCKS5) spans network round trips and is taken to be at    *)
(* least one clock unit; the download time may be zero.                    *)
(***************************************************************************)
MaxMs == 3          \* largest duration drawn, in ms
ConnectTimes == 1..MaxMs
DownloadTimes == 0..MaxMs
ByteCounts == {0, 1, 50, 4096, 200000}
Sizes == {0, 1000, 100000}

CeilDiv(a, b) == (a + b - 1) \div b

\* _vless_ws_speed_test, lines 1881-2032: the tuple it returns
NativeEarlyErrors ==
  {"ws-hdr-timeout", "ws-eof", "ws-hdr-overflow", "ws-no-resp", "timeout",
   "cancelled", "oserror"}
NativeLateErrors == {"probe-closed", "probe-http", "probe-no-response"}
VlessWsSpeedTest(env) ==
  IF env.stage \in NativeEarlyErrors
  THEN [connect_ms |-> -1, ttfb_ms |-> -1, mbps |-> 0, err |-> env.stage]
  ELSE IF env.stage \in NativeLateErrors
  THEN [connect_ms |-> env.connect, ttfb_ms |-> -1, mbps |-> 0,
        err |-> env.stage]
  ELSE LET mbps == IF env.dl > 1
                   THEN CeilDiv(env.total * 1000, env.dl) ELSE 10000
       IN  [connect_ms |-> env.connect, ttfb_ms |-> env.ttfb,
            mbps |-> Max(mbps, 1000), err |-> ""]

\* _xray_speed_test_blocking, lines 1588-1713: the tuple it returns
ProxyEarlyErrors ==
  {"socks5-auth", "socks5-connect", "socks5-bad-atyp", "timeout", "oserror"}
ProxyLateErrors == {"hdr-timeout", "empty-headers", "hdr-too-big", "http"}
\* line 1694: total < min(size * 0.05, 4096)
Incomplete(total, size) == total * 20 < size /\ total < 4096
XraySpeedTestBlocking(env, size) ==
  IF env.stage \in ProxyEarlyErrors
  THEN [connect_ms |-> -1, ttfb_ms |-> -1, mbps |-> 0, err |-> env.stage]
  ELSE IF env.stage \in ProxyLateErrors
  THEN [connect_ms |-> env.connect, ttfb_ms |-> -1, mbps |-> 0,
        err |-> env.stage]
  ELSE IF Incomplete(env.total, size)
  THEN [connect_ms |-> env.connect, ttfb_ms |-> env.ttfb, mbps |-> 0,
        err |-> "incomplete"]
  ELSE [connect_ms |-> env.connect, ttfb_ms |-> env.ttfb,
        mbps |-> IF env.dl > 1 THEN CeilDiv(env.total * 1000, env.dl) ELSE 0,
        err |-> ""]

\* lines 2432 and 2480: the test of the measured speed
AliveIfNotNegative(mbps) == mbps >= 0
AliveIf(mbps) == mbps > 0

Measured ==
  { [connect |-> c, ttfb |-> f, total |-> n, dl |-> d] :
    c \in ConnectTimes, f \in DownloadTimes, n \in ByteCounts,
    d \in DownloadTimes }
NativeEnvs ==
  { [path |-> "native", stage |-> st, connect |-> m.connect, ttfb |-> m.ttfb,
     total |-> m.total, dl |-> m.dl] :
    st \in NativeEarlyErrors \cup NativeLateErrors \cup {"body"}, m \in Measured }
ProxyEnvs ==
  { [path |-> "proxy", stage |-> st, connect |-> m.connect, ttfb |-> m.ttfb,
     total |-> m.total, dl |-> m.dl] :
    st \in ProxyEarlyErrors \cup ProxyLateErrors \cup {"body"}, m \in Measured }
\* the proxy path ends before the download: lines 2447-2449, 2457-2468, 2472-2474
SetupErrors == {"no-free-port", "write-cfg", "xray-start-fail"}

TestInit ==
  /\ t_pc = "init"
  /\ t_size \in Sizes
  /\ t_env = [path |-> "none"]
  /\ t_var = NewVariation
  /\ t_xray = "none"

\* lines 2420-2442: a VLESS+WS config is tested by the native prober
TestNative(env) ==
  /\ t_pc = "init"
  /\ LET r == VlessWsSpeedTest(env)
     IN  t_var' = IF AliveIf(r.mbps)
                  THEN [t_var EXCEPT !.connect_ms = r.connect_ms,
                                     !.alive = TRUE, !.native_tested = TRUE,
                                     !.ttfb_ms = r.ttfb_ms,
                                     !.speed_mbps = r.mbps]
                  ELSE [t_var EXCEPT !.connect_ms = r.connect_ms,
                                     !.error = IF r.err # "" THEN r.err
                                               ELSE "no-data"]
  /\ t_env' = env
  /\ t_pc' = "done"
  /\ UNCHANGED <<t_size, t_xray>>
  /\ UNCHANGED nonTest

\* lines 2444-2474: the proxy path fails before the download starts
TestProxySetupFails(why) ==
  /\ t_pc = "init"
  /\ t_var' = [t_var EXCEPT !.error = why]
  /\ t_env' = [path |-> "proxy", stage |-> why]
  /\ t_xray' = IF why = "xray-start-fail" THEN "stopped" ELSE "none"
  /\ t_pc' = "done"
  /\ UNCHANGED t_size
  /\ UNCHANGED nonTest

\* lines 2470-2497: the download through the SOCKS5 port of the xray process
TestProxy(env) ==
  /\ t_pc = "init"
  /\ LET r == XraySpeedTestBlocking(env, t_size)
     IN  t_var' = IF AliveIf(r.mbps)
                  THEN [t_var EXCEPT !.connect_ms = r.connect_ms,
                                     !.alive = TRUE, !.ttfb_ms = r.ttfb_ms,
                                     !.speed_mbps = r.mbps]
                  ELSE [t_var EXCEPT !.connect_ms = r.connect_ms,
                                     !.error = IF r.err # "" THEN r.err
                                               ELSE "no-data"]
  /\ t_env' = env
  /\ t_xray' = "stopped"
  /\ t_pc' = "done"
  /\ UNCHANGED t_size
  /\ UNCHANGED nonTest

TNext ==
  \/ \E env \in NativeEnvs : TestNative(env)
  \/ \E why \in SetupErrors : TestProxySetupFails(why)
  \/ \E env \in ProxyEnvs : TestProxy(env)

TInit == TestInit /\ LimiterIdle /\ ScanIdle /\ GenIdle /\ ExpandIdle
  /\ LaterIdle /\ MoreIdle

SpecTest == TInit /\ [][TNext]_vars

\* ------------------------------------------------------ claims on test_one

MAX_IPS == 6666

IP(a, b, c, d) == ((a * 256 + b) * 256 + c) * 256 + d

Pow2(n) == 2^n

ValidNet(e) == e.prefix \in 0..32
NetSize(prefix) == Pow2(32 - prefix)
\* IPv4Network(text, strict=False)
IPv4Network(e) ==
  [addr |-> e.addr - (e.addr % NetSize(e.prefix)), prefix |-> e.prefix]

\* IPv4Network.hosts(): a /32 has its one address, a /31 both addresses, any
\* other network all addresses but the first and the last
HostFirst(net) == IF net.prefix >= 31 THEN net.addr ELSE net.addr + 1
HostCount(net) ==
  IF net.prefix = 32 THEN 1
  ELSE IF net.prefix = 31 THEN 2 ELSE NetSize(net.prefix) - 2
Hosts(net) == [i \in 1..HostCount(net) |-> HostFirst(net) + i - 1]

\* net.subnets(new_prefix=24) of a network with prefix <= 24
Subnets24(net) ==
  [i \in 1..Pow2(24 - net.prefix) |->
     [addr |-> net.addr + (i - 1) * 256, prefix |-> 24]]

\* lines 3216-3220 and 3222-3225: a block is kept unless the number of its
\* network address was seen
RECURSIVE KeepNew(_, _)
KeepNew(st, blocks) ==
  IF blocks = << >> THEN st
  ELSE LET b == Head(blocks)
       IN  KeepNew(IF b.addr \in st.seen THEN st
                   ELSE [seen |-> st.seen \cup {b.addr},
                         blocks |-> Append(st.blocks, b)],
                   Tail(blocks))

\* _split_to_24s, lines 3207-3227
RECURSIVE SplitFrom(_, _)
SplitFrom(st, subnets) ==
  IF subnets = << >> THEN st
  ELSE LET sub == Head(subnets)
           net == IPv4Network(sub)
       IN  SplitFrom(IF ~ValidNet(sub) THEN st
                     ELSE IF net.prefix <= 24 THEN KeepNew(st, Subnets24(net))
                     ELSE KeepNew(st, <<net>>),
                     Tail(subnets))
SplitTo24s(subnets) == SplitFrom([seen |-> {}, blocks |-> << >>], subnets).blocks

\* random.shuffle(blocks), line 3233: any order of the blocks
Shuffles(blocks) ==
  { [i \in 1..Len(blocks) |-> blocks[p[i]]] :
    p \in { q \in [1..Len(blocks) -> 1..Len(blocks)] :
            \A i, j \in 1..Len(blocks) : i # j => q[i] # q[j] } }

\* random.sample(hosts, k): any k distinct positions of hosts, in any order
Samples(hosts, k) ==
  { [i \in 1..k |-> hosts[p[i]]] :
    p \in { q \in [1..k -> 1..Len(hosts)] :
            \A i, j \in 1..k : i # j => q[i] # q[j] } }

\* lines 3236-3238: the hosts one block contributes
BlockHosts(net, sample_per_24) ==
  IF sample_per_24 > 0 /\ sample_per_24 < HostCount(net)
  THEN Samples(Hosts(net), sample_per_24) ELSE {Hosts(net)}

\* lines 3234-3240: the lists the loop over the shuffled blocks can build
RECURSIVE CfIpLists(_, _)
CfIpLists(blocks, sample_per_24) ==
  IF blocks = << >> THEN {<< >>}
  ELSE { h \o rest : h \in BlockHosts(Head(blocks), sample_per_24),
                     rest \in CfIpLists(Tail(blocks), sample_per_24) }

CidrPool ==
  { [addr |-> IP(10, 0, 0, 77), prefix |-> 24],
    [addr |-> IP(10, 0, 0, 0), prefix |-> 23],
    [addr |-> IP(10, 0, 0, 0), prefix |-> 25],
    [addr |-> IP(10, 0, 0, 5), prefix |-> 30],
    [addr |-> IP(10, 0, 1, 9), prefix |-> 32],
    [addr |-> IP(10, 0, 0, 0), prefix |-> 33] }
CidrLists == UNION {[1..n -> CidrPool] : n \in 0..MaxCidrs}

RECURSIVE TotalHosts(_)
TotalHosts(blocks) ==
  IF blocks = << >> THEN 0
  ELSE HostCount(Head(blocks)) + TotalHosts(Tail(blocks))

CfInputs ==
  { in \in [subnets : CidrLists, sample : {0, 1}] :
      in.sample = 0 \/ TotalHosts(SplitTo24s(in.subnets)) <= MaxSampledHosts }

CfIpsInit ==
  /\ c_pc = "init"
  /\ c_in \in CfInputs
  /\ c_ips = << >>

\* generate_cf_ips, lines 3230-3240
GenerateCfIps ==
  /\ c_pc = "init"
  /\ \E blocks \in Shuffles(SplitTo24s(c_in.subnets)) :
       c_ips' \in CfIpLists(blocks, c_in.sample)
  /\ c_pc' = "done"
  /\ UNCHANGED c_in
  /\ UNCHANGED nonCfIps

CNext == GenerateCfIps

CInit ==
  /\ CfIpsInit /\ FreeformIdle /\ LaterIdle /\ MoreIdle
  /\ LimiterIdle /\ ScanIdle /\ GenIdle /\ TestIdle

SpecCfIps == CInit /\ [][CNext]_vars

\* a freeform entry: a single address (IPv4Address accepts the text), a
\* network (IPv4Network does), or a text both reject
IsAddress(e) == e.prefix = -1
EntryHosts(e) ==
  IF IsAddress(e) THEN <<e.addr>>
  ELSE IF ValidNet(e) THEN Hosts(IPv4Network(e)) ELSE << >>

\* lines 2360-2375: what one entry adds to result.  A single address is added
\* unless seen; the hosts of a network are added in order, unless seen, until
\* the list holds MAX_IPS addresses.
RoomAlways(n) == MAX_IPS + n
Room(n) == MAX_IPS - n
Fresh(hosts, seen) == SelectSeq(hosts, LAMBDA h : h \notin seen)
AddEntry(result, e) ==
  LET fresh == Fresh(EntryHosts(e), Range(result))
  IN  IF IsAddress(e) THEN result \o fresh
      ELSE result \o Take(fresh, Max(0, Room(Len(result))))

\* expand_custom_ips, lines 2357-2379: the loop over the entries, left when
\* the list holds MAX_IPS addresses (2377)
RECURSIVE ExpandFrom(_, _)
ExpandFrom(result, entries) ==
  IF entries = << >> THEN result
  ELSE LET r == AddEntry(result, Head(entries))
       IN  IF Len(r) >= MAX_IPS THEN r ELSE ExpandFrom(r, Tail(entries))
ExpandCustomIps(entries) == ExpandFrom(<< >>, entries)

EntryPool ==
  { [addr |-> IP(10, 0, 0, 5), prefix |-> -1],
    [addr |-> IP(10, 0, 32, 1), prefix |-> -1],
    [addr |-> IP(10, 0, 0, 0), prefix |-> 19],
    [addr |-> IP(10, 0, 0, 6), prefix |-> 30],
    [addr |-> IP(10, 0, 0, 5), prefix |-> 32],
    [addr |-> IP(10, 0, 0, 0), prefix |-> 33] }
EntryLists == UNION {[1..n -> EntryPool] : n \in 0..MaxEntries}

FreeformInit ==
  /\ f_pc = "init"
  /\ f_in \in EntryLists
  /\ f_out = << >>

ExpandFreeform ==
  /\ f_pc = "init"
  /\ f_out' = ExpandCustomIps(f_in)
  /\ f_pc' = "done"
  /\ UNCHANGED f_in
  /\ UNCHANGED nonFreeform

FNext == ExpandFreeform

FInit ==
  /\ FreeformInit /\ CfIpsIdle /\ LaterIdle /\ MoreIdle
  /\ LimiterIdle /\ ScanIdle /\ GenIdle /\ TestIdle

SpecFreeform == FInit /\ [][FNext]_vars

\* ------------------------------------------------- claims on the expansions

\* C9: the address list generate_cf_ips returns contains no IP twice, for
\* every list of subnets (repeated, overlapping, longer than /24 and inside
\* another block) and every sample_per_24.
C9_NoDuplicateIp ==
  c_pc = "done" => Cardinality(Range(c_ips)) = Len(c_ips)

\* where an address first stands in the expansion of all entries, one after
\* the other: entry i expands to the addresses First(i) .. First(i) + Count(i) - 1
EntryFirst(i) ==
  IF IsAddress(f_in[i]) THEN f_in[i].addr
  ELSE IF ValidNet(f_in[i]) THEN HostFirst(IPv4Network(f_in[i])) ELSE 0
EntryCount(i) ==
  IF IsAddress(f_in[i]) THEN 1
  ELSE IF ValidNet(f_in[i]) THEN HostCount(IPv4Network(f_in[i])) ELSE 0
Covers(i, h) == h >= EntryFirst(i) /\ h < EntryFirst(i) + EntryCount(i)
RECURSIVE EntryOffset(_)
EntryOffset(i) == IF i = 1 THEN 0 ELSE EntryOffset(i - 1) + EntryCount(i - 1)
Expanded ==
  UNION { EntryFirst(i) .. (EntryFirst(i) + EntryCount(i) - 1) : i \in DOMAIN f_in }
FirstSeen(h) ==
  LET i == CHOOSE k \in DOMAIN f_in :
             Covers(k, h) /\ \A j \in 1..(k - 1) : ~Covers(j, h)
  IN  EntryOffset(i) + (h - EntryFirst(i)) + 1

\* C10: the list expand_custom_ips returns is the first-seen-order
\* deduplication of the expanded entries cut to 6,666 addresses: its addresses
\* stand in the order of their first appearance (so none stands twice), it is
\* as long as the number of distinct addresses allows up to 6,666, and every
\* address left out first appears after the last one kept.
C10_FirstSeenDedupCapped ==
  f_pc = "done" =>
    /\ Len(f_out) <= 6666
    /\ Len(f_out) = Min(6666, Cardinality(Expanded))
    /\ Range(f_out) \subseteq Expanded
    /\ \A i \in 1..(Len(f_out) - 1) : FirstSeen(f_out[i]) < FirstSeen(f_out[i + 1])
    /\ LET cut == Expanded \ Range(f_out)
       IN  cut # {} =>
             LET last == FirstSeen(f_out[Len(f_out)])
             IN  \A h \in cut : FirstSeen(h) > last

\* the cut happened inside a network whose listing skipped an address that
\* an earlier entry had already given
C10_Witness ==
  /\ f_pc = "done"
  /\ Len(f_out) = 6666
  /\ Len(f_in) >= 2
  /\ IsAddress(f_in[1])
  /\ f_out[1] = f_in[1].addr
  /\ \E i \in 2..Len(f_out) : f_out[i] = f_in[1].addr + 1 /\ f_out[i - 1] = f_in[1].addr - 1

(***************************************************************************)
(* Part 6: xray_pipeline_test (2500-3082), Stages 2 and 3.  The run starts *)
(* where the gather of Stage 1 has returned (2817): p_in holds what Stage  *)
(* 1 found and, for every target, the outcome its test will have.  A       *)
(* variation is kept as its tag, a record of the parts of the tag string:  *)
(* ip, server port (443 has no label, 2266), sni, fragment label,          *)
(* transport label and mode label.                                         *)
(***************************************************************************)
PipeIps == 1..MaxPipeIps
BASE_SEM == 10      \* _base_sem
EXP_SEM == 20       \* _exp_sem
BASE_BATCH == 20
EXP_CHUNK == 60
MAX_FALLBACK_IPS == 20

Tag(ip, port, sni, frag, t, mode) ==
  [ip |-> ip, port |-> port, sni |-> sni, frag |-> frag, t |-> t,
   mode |-> mode]

\* lines 2920, 2973: the tag of a base or fallback variation
BaseTag(ip, sni) == Tag(ip, 443, sni, "none", "", "")

\* _add_variation, lines 2264-2271: the tag of a generated variation
TagOf(v) ==
  Tag(v.ip, v.port, v.sni, FragLabel(v.frag),
      IF v.tname # "orig" THEN v.ttype ELSE "", v.mode)

\* lines 2902-2905
TestIps(in) ==
  LET top == Take(in.live_ips, in.max_stage2_ips)
  IN  IF in.orig_addr \notin Range(top) THEN <<in.orig_addr>> \o top ELSE top

\* lines 2960-2963, for a config whose host is its SNI (_alt_sni = "")
FallbackSnis(orig_sni) ==
  SelectSeq(<<"speed.cloudflare.com", "dash.cloudflare.com", "chatgpt.com">>,
            LAMBDA x : x # orig_sni)

\* line 2994: the expansion runs over fallback IPs
UseFallbackAnyConfig(in, working, intr) ==
  working = << >> /\ ~intr /\ in.live_ips # << >>
UseFallback(in, working, intr) ==
  working = << >> /\ ~intr /\ in.is_cf /\ in.live_ips # << >>

\* line 2995
FallbackIps(in) ==
  Take(in.live_ips, Min(MAX_FALLBACK_IPS, in.max_stage2_ips))

\* lines 3020-3021
ExpansionIps(in, working, intr) ==
  IF working # << >> THEN working
  ELSE IF UseFallback(in, working, intr) THEN FallbackIps(in) ELSE << >>

\* lines 3024-3027
SniPoolFor(in, sni) ==
  <<sni>> \o SelectSeq(in.sni_pool, LAMBDA x : x # sni)

\* lines 3036-3048: the variations Stage 3 tests.  (The input of the
\* generator is bound by a quantifier, so that it is built once.)
ExpansionVars(in, ips, sni, tested) ==
  CHOOSE exp \in
    { SelectSeq([i \in DOMAIN vs |-> TagOf(vs[i])],
                LAMBDA x : x \notin Range(tested)) :
      vs \in { GeneratePipelineVariations(gi) : gi \in { GenInput(ips,
                        [ip \in PipeIps |->
                           IF ip \in Range(in.live_ips) THEN in.ports
                           ELSE << >>],
                        [sec |-> in.sec, vision |-> FALSE, otype |-> "ws",
                         omode |-> ""],
                        [host |-> in.host, orig_sni |-> in.orig_sni],
                        SniPoolFor(in, sni), in.frag_preset, << >>,
                        [max_total |-> in.max_expansion,
                         base_port |-> XRAY_BASE_PORT],
                        in.max_snis) } } } : TRUE

\* one batch of the loops at 2951-2955 and 3071-3076
Batch(list, ci, size) == SubSeq(list, ci + 1, Min(ci + size, Len(list)))

\* lines 2988-3082, from the end of Stage 2 to the first gather of Stage 3
\* or to the return
PipeAfterBase(working, variations, sni) ==
  LET ips == ExpansionIps(p_in, working, p_intr)
  IN  /\ p_dec' = [made |-> TRUE, base_failed |-> working = << >>,
                 intr |-> p_intr]
      /\ p_working' = working
      /\ p_variations' = variations
      /\ p_sni' = sni
      /\ p_fb' = 0
      /\ p_ci' = 0
      /\ IF ~UseFallback(p_in, working, p_intr) /\ (working = << >> \/ p_intr)
         THEN /\ p_pc' = "finished"
              /\ p_task' = << >>
              /\ UNCHANGED <<p_stage, p_exp_ips, p_exp>>
         ELSE \E exp \in {ExpansionVars(p_in, ips, sni, variations)} :
              /\ p_stage' = 2
              /\ p_exp_ips' = ips
              /\ p_exp' = exp
              /\ IF exp = << >>
                 THEN p_pc' = "finished" /\ p_task' = << >>
                 ELSE /\ p_pc' = "expansion"
                      /\ p_task' = [t \in DOMAIN Batch(exp, 0, EXP_CHUNK) |->
                                      "created"]

PipeConfigs ==
  { [sec |-> "tls", is_cf |-> TRUE], [sec |-> "tls", is_cf |-> FALSE],
    [sec |-> "reality", is_cf |-> FALSE] }

LiveLists ==
  { l \in UNION {[1..n -> PipeIps] : n \in 0..MaxLive} :
      \A i, j \in DOMAIN l : l[i] = l[j] => i = j }

\* Stage 1 probes the config's own address only for REALITY (2761-2766)
PipeInit ==
  /\ p_pc = "init"
  /\ \E c \in PipeConfigs, live \in LiveLists, ports \in {<<443>>, <<8443, 443>>},
        m2 \in 1..MaxLive, alive \in [PipeIps -> BOOLEAN], fb \in {0, 2} :
        /\ c.sec = "reality" => Range(live) \subseteq {1} /\ ports = <<443>>
        /\ p_in = [sec |-> c.sec, is_cf |-> c.is_cf, orig_addr |-> 1,
                   host |-> "h", orig_sni |-> "o", sni_pool |-> <<"s1">>,
                   frag_preset |-> "all", max_expansion |-> MaxExpansion,
                   max_snis |-> 10, live_ips |-> live, ports |-> ports,
                   max_stage2_ips |-> m2, base_alive |-> alive,
                   fb_alive |-> fb]
  /\ p_intr \in BOOLEAN
  /\ p_stage = 0
  /\ p_task = << >>
  /\ p_working = << >>
  /\ p_variations = << >>
  /\ p_sni = "o"
  /\ p_fb = 0
  /\ p_exp_ips = << >>
  /\ p_exp = << >>
  /\ p_ci = 0
  /\ p_dec = [made |-> FALSE, base_failed |-> FALSE, intr |-> FALSE]

\* lines 2832-2955: Stage 1 is over; the base variations are built and the
\* first batch is handed to gather
PipeBaseBegin ==
  /\ p_pc = "init"
  /\ IF p_in.live_ips = << >> \/ p_intr
     THEN /\ p_pc' = "finished"
          /\ UNCHANGED <<p_stage, p_task>>
     ELSE /\ p_pc' = "base_test"
          /\ p_stage' = 1
          /\ p_task' = [t \in DOMAIN Batch(TestIps(p_in), 0, BASE_BATCH) |->
                          "created"]
  /\ UNCHANGED <<p_in, p_intr, p_working, p_variations, p_sni, p_fb,
                 p_exp_ips, p_exp, p_ci, p_dec>>
  /\ UNCHANGED nonPipe

Testing == {t \in DOMAIN p_task : p_task[t] = "testing"}

\* _test_base and _test_exp up to their await (2934-2937, 3060-3063); the
\* event loop starts the tasks of a gather in the order of its arguments
TaskBegin(t, stage, sem) ==
  /\ p_pc = stage
  /\ p_task[t] = "created"
  /\ \A u \in 1..(t - 1) : p_task[u] # "created"
  /\ Cardinality(Testing) < sem
  /\ p_task' = [p_task EXCEPT ![t] = IF p_intr THEN "returned" ELSE "testing"]
  /\ UNCHANGED <<p_pc, p_in, p_intr, p_stage, p_working, p_variations, p_sni,
                 p_fb, p_exp_ips, p_exp, p_ci, p_dec>>
  /\ UNCHANGED nonPipe

TestBaseBegin(t) == TaskBegin(t, "base_test", BASE_SEM)

\* _test_base after its await, lines 2938-2948
TestBaseEnd(t) ==
  /\ p_pc = "base_test"
  /\ p_task[t] = "testing"
  /\ LET ip == TestIps(p_in)[p_ci + t]
     IN  /\ p_variations' = Append(p_variations, BaseTag(ip, p_sni))
         /\ p_working' = IF p_in.base_alive[ip] /\ ip \notin Range(p_working)
                         THEN Append(p_working, ip) ELSE p_working
  /\ p_task' = [p_task EXCEPT ![t] = "done"]
  /\ UNCHANGED <<p_pc, p_in, p_intr, p_stage, p_sni, p_fb, p_exp_ips, p_exp,
                 p_ci, p_dec>>
  /\ UNCHANGED nonPipe

\* a gather that returns with its first task ("as" of a mutation of
\* GatherReturns)
GatherReturnsFirst ==
  \E t \in DOMAIN p_task : p_task[t] \in {"done", "returned"}

\* asyncio.gather returns when every task has returned.  _sig cancels the
\* pipeline task right after it sets the flag (5207-5209), and only the steps
\* that were ready before run ahead of the cancellation: a task that finds
\* the flag set returns after the cancellation is scheduled, so the pipeline
\* never resumes from a gather in which a task returned untested
\* (NoneReturned); it is cancelled there.
GatherReturns == \A t \in DOMAIN p_task : p_task[t] \in {"done", "returned"}
NoneReturned == \A t \in DOMAIN p_task : p_task[t] # "returned"

\* lines 2951-2959: the gather of a batch of Stage 2 returns
BaseGatherDone ==
  /\ p_pc = "base_test"
  /\ GatherReturns
  /\ NoneReturned
  /\ LET ci == p_ci + BASE_BATCH
     IN  IF ci < Len(TestIps(p_in)) /\ ~p_intr
         THEN /\ p_ci' = ci
              /\ p_task' = [t \in DOMAIN Batch(TestIps(p_in), ci, BASE_BATCH) |->
                              "created"]
              /\ UNCHANGED <<p_pc, p_stage, p_working, p_variations, p_sni,
                             p_fb, p_exp_ips, p_exp, p_dec>>
         ELSE IF /\ p_working = << >>
                 /\ ~p_intr
                 /\ p_in.sec \notin {"reality", "none"}
                 /\ FallbackSnis(p_sni) # << >>
         THEN /\ p_pc' = "fallback"
              /\ p_fb' = 1
              /\ p_task' = << >>
              /\ p_ci' = 0
              /\ UNCHANGED <<p_stage, p_working, p_variations, p_sni,
                             p_exp_ips, p_exp, p_dec>>
         ELSE PipeAfterBase(p_working, p_variations, p_sni)
  /\ UNCHANGED <<p_in, p_intr>>
  /\ UNCHANGED nonPipe

\* lines 2966-2986: the test of one fallback SNI on the original address
\* returns
FallbackTestEnd ==
  /\ p_pc = "fallback"
  /\ LET fb_sni == FallbackSnis(p_sni)[p_fb]
     IN  IF p_in.fb_alive = p_fb
         THEN PipeAfterBase(<<p_in.orig_addr>>,
                            Append(p_variations,
                                   BaseTag(p_in.orig_addr, fb_sni)), fb_sni)
         ELSE IF p_fb = Len(FallbackSnis(p_sni)) \/ p_intr
         THEN PipeAfterBase(p_working, p_variations, p_sni)
         ELSE /\ p_fb' = p_fb + 1
              /\ UNCHANGED <<p_pc, p_stage, p_task, p_working, p_variations,
                             p_sni, p_exp_ips, p_exp, p_ci, p_dec>>
  /\ UNCHANGED <<p_in, p_intr>>
  /\ UNCHANGED nonPipe

TestExpBegin(t) == TaskBegin(t, "expansion", EXP_SEM)

\* _test_exp after its await, lines 3064-3068: the result goes into the
\* variation, the lists are left alone
TestExpEnd(t) ==
  /\ p_pc = "expansion"
  /\ p_task[t] = "testing"
  /\ p_task' = [p_task EXCEPT ![t] = "done"]
  /\ UNCHANGED <<p_pc, p_in, p_intr, p_stage, p_working, p_variations, p_sni,
                 p_fb, p_exp_ips, p_exp, p_ci, p_dec>>
  /\ UNCHANGED nonPipe

\* lines 3072-3082: the gather of a chunk of Stage 3 returns
ExpGatherDone ==
  /\ p_pc = "expansion"
  /\ GatherReturns
  /\ NoneReturned
  /\ p_variations' = p_variations \o Batch(p_exp, p_ci, EXP_CHUNK)
  /\ LET ci == p_ci + EXP_CHUNK
     IN  IF ci < Len(p_exp) /\ ~p_intr
         THEN /\ p_ci' = ci
              /\ p_task' = [t \in DOMAIN Batch(p_exp, ci, EXP_CHUNK) |->
                              "created"]
              /\ UNCHANGED p_pc
         ELSE /\ p_pc' = "finished"
              /\ p_task' = << >>
              /\ UNCHANGED p_ci
  /\ UNCHANGED <<p_in, p_intr, p_stage, p_working, p_sni, p_fb, p_exp_ips,
                 p_exp, p_dec>>
  /\ UNCHANGED nonPipe

\* _sig, lines 5206-5209: sets xst.interrupted and asks the loop to cancel
\* the pipeline task; the steps that are ready may still run before that
PipeInterrupt ==
  /\ p_pc \notin {"init", "finished"}
  /\ ~p_intr
  /\ p_intr' = TRUE
  /\ UNCHANGED <<p_pc, p_in, p_stage, p_task, p_working, p_variations, p_sni,
                 p_fb, p_exp_ips, p_exp, p_ci, p_dec>>
  /\ UNCHANGED nonPipe

\* lines 5212-5216: the cancellation reaches the pipeline at its await
PipeCancelled ==
  /\ p_pc \notin {"init", "finished"}
  /\ p_intr
  /\ p_pc' = "finished"
  /\ p_task' = << >>
  /\ UNCHANGED <<p_in, p_intr, p_stage, p_working, p_variations, p_sni, p_fb,
                 p_exp_ips, p_exp, p_ci, p_dec>>
  /\ UNCHANGED nonPipe

PNext ==
  \/ PipeBaseBegin
  \/ \E t \in DOMAIN p_task : TestBaseBegin(t)
  \/ \E t \in DOMAIN p_task : TestBaseEnd(t)
  \/ BaseGatherDone
  \/ FallbackTestEnd
  \/ \E t \in DOMAIN p_task : TestExpBegin(t)
  \/ \E t \in DOMAIN p_task : TestExpEnd(t)
  \/ ExpGatherDone
  \/ PipeInterrupt
  \/ PipeCancelled

PInit ==
  PipeInit /\ FirstIdle /\ RoundsIdle /\ SpeedIdle /\ DedupIdle /\ TunnelIdle
    /\ MoreIdle

SpecPipe == PInit /\ [][PNext]_vars

\* ---------------------------------------------------- claims on the pipeline

\* Stage 2 as it ends when every test ends in the order of test_ips
InOrderVariations(in) ==
  [i \in DOMAIN TestIps(in) |-> BaseTag(TestIps(in)[i], in.orig_sni)]
InOrderWorking(in) ==
  SelectSeq(TestIps(in), LAMBDA ip : in.base_alive[ip])

\* xst.variations at the end of a run that is never interrupted, from what
\* Stage 2 left in working_ips and variations (2959-3082; the fallback SNIs
\* are tested one after the other)
FinalVariations(in, working, variations) ==
  LET fbs == FallbackSnis(in.orig_sni)
      fb == /\ working = << >>
            /\ in.sec \notin {"reality", "none"}
            /\ in.fb_alive \in DOMAIN fbs
      w == IF fb THEN <<in.orig_addr>> ELSE working
      v == IF fb
           THEN Append(variations, BaseTag(in.orig_addr, fbs[in.fb_alive]))
           ELSE variations
      sni == IF fb THEN fbs[in.fb_alive] ELSE in.orig_sni
      ips == ExpansionIps(in, w, FALSE)
  IN  IF ips = << >> THEN v ELSE v \o ExpansionVars(in, ips, sni, v)

\* C11: a run that is not interrupted ends with the list xst.variations that
\* its inputs and the outcome of every target determine (the list of the run
\* whose tests end in the order they were started), whatever the order in
\* which the concurrent tests end; so two such runs end with the same list.
C11_SameVariationsList ==
  (p_pc = "finished" /\ ~p_intr /\ p_in.live_ips # << >>) =>
    p_variations = FinalVariations(p_in, InOrderWorking(p_in),
                                   InOrderVariations(p_in))

PipelineSnis ==
  {p_variations[i].sni : i \in DOMAIN p_variations}
    \cup {p_exp[i].sni : i \in DOMAIN p_exp}
    \cup (IF p_pc = "base_test" THEN {p_sni} ELSE {})
    \cup (IF p_pc = "fallback" THEN {FallbackSnis(p_sni)[p_fb]} ELSE {})

\* C21: for a config with security = reality, every variation the pipeline
\* builds or tests in any stage (base test, fallback SNI, expansion) carries
\* the SNI of the config.
C21_RealityKeepsSni ==
  p_in.sec = "reality" =>
    /\ PipelineSnis \subseteq {p_in.orig_sni}
    /\ p_sni = p_in.orig_sni
    /\ p_pc # "fallback"

\* a REALITY config whose base test passed: Stage 3 has generated its
\* variations and the run is over
C21_Witness ==
  /\ p_in.sec = "reality"
  /\ p_dec.made
  /\ p_stage = 2
  /\ p_exp_ips = <<1>>
  /\ p_variations # << >>
  /\ p_pc = "finished"

\* every base test of Stage 2 has run to its end: each appends its
\* variation when it ends (2940)
BaseTestsOver ==
  \A i \in DOMAIN TestIps(p_in) :
    BaseTag(TestIps(p_in)[i], p_in.orig_sni) \in Range(p_variations)

\* C22: no test of Stage EXPANSION starts while a test of Stage BASE-TEST
\* (a fallback-SNI test included) is running or not yet started: when Stage
\* 3 is entered every base test has ended and no fallback test runs.
C22_ExpansionAfterBase ==
  (p_stage = 2 \/ p_pc = "expansion") =>
    /\ BaseTestsOver
    /\ p_fb = 0
    /\ p_dec.made
    /\ ~p_dec.intr

\* an expansion test runs after three base tests
C22_Witness ==
  /\ p_pc = "expansion"
  /\ Len(TestIps(p_in)) = 3
  /\ \E t \in DOMAIN p_task : p_task[t] = "testing"

\* the expansion variations whose test has completed in the running gather
CompletedExp ==
  IF p_pc = "expansion"
  THEN {p_exp[p_ci + t] : t \in {u \in DOMAIN p_task : p_task[u] = "done"}}
  ELSE {}

\* C29: in Stage EXPANSION each variation is appended to xst.variations when
\* its own test completes: in every state every variation whose test has
\* completed is in the list, and a step that adds variations to the list
\* adds none whose test has not run.
C29_AppendedWhenCompleted ==
  /\ [](CompletedExp \subseteq Range(p_variations))
  /\ [][(p_pc = "expansion" /\ p_variations' # p_variations) =>
          \A t \in DOMAIN p_task : p_task[t] = "done"]_vars

(***************************************************************************)
(* Part 7: build_dynamic_rounds (831-860) and the rounds of run_scan       *)
(* (8227-8291).  st.rounds is empty when run_scan starts (no --rounds      *)
(* argument), the candidates of a round are kept as their number: a round  *)
(* keeps a prefix of the list, re-sorted by score.                         *)
(***************************************************************************)
SMALL_SET == 50     \* line 844, and the length above which run_scan cuts (8253)

\* PRESETS, lines 225-262; an unknown mode is "normal" (833, 8244)
Preset(mode) ==
  CASE mode = "quick" ->
         [latency_cut |-> 50, round_sizes |-> <<1000000, 5000000>>,
          round_pcts |-> <<100, 20>>, round_min |-> <<50, 10>>,
          round_max |-> <<100, 20>>]
    [] mode = "thorough" ->
         [latency_cut |-> 15,
          round_sizes |-> <<5000000, 25000000, 50000000>>,
          round_pcts |-> <<100, 25, 10>>, round_min |-> <<0, 30, 15>>,
          round_max |-> <<0, 150, 50>>]
    [] OTHER ->
         [latency_cut |-> 40,
          round_sizes |-> <<1000000, 5000000, 20000000>>,
          round_pcts |-> <<100, 25, 10>>, round_min |-> <<50, 20, 10>>,
          round_max |-> <<200, 50, 20>>]

\* line 844
SmallSetBelow(alive_count) == alive_count < SMALL_SET
SmallSet(alive_count) == alive_count <= SMALL_SET

\* lines 849-856; int(alive_count * pct / 100) is the quotient rounded down
KeepNoMax(alive_count, pct, mn, mx) ==
  LET k0 == IF pct < 100 THEN (alive_count * pct) \div 100 ELSE alive_count
  IN  IF mn > 0 THEN Max(mn, k0) ELSE k0
Keep(alive_count, pct, mn, mx) ==
  LET k0 == IF pct < 100 THEN (alive_count * pct) \div 100 ELSE alive_count
      k1 == IF mn > 0 THEN Max(mn, k0) ELSE k0
  IN  IF mx > 0 THEN Min(mx, k1) ELSE k1

\* lines 831-860
BuildDynamicRounds(mode, alive_count) ==
  LET pr == Preset(mode)
      all == [k \in DOMAIN pr.round_sizes |->
                [size |-> pr.round_sizes[k],
                 keep |-> Min(IF SmallSet(alive_count) THEN alive_count
                              ELSE Keep(alive_count, pr.round_pcts[k],
                                        pr.round_min[k], pr.round_max[k]),
                              alive_count)]]
  IN  SelectSeq(all, LAMBDA rc : rc.keep > 0)

\* the latency cut taken from 50 alive IPs on
CutNFromFifty(mode, n) ==
  IF Preset(mode).latency_cut > 0 /\ n >= SMALL_SET
  THEN Max(1, (n * Preset(mode).latency_cut) \div 100) ELSE 0

\* lines 8252-8257: the number of IPs the latency cut removes
CutN(mode, n) ==
  IF Preset(mode).latency_cut > 0 /\ n > SMALL_SET
  THEN Max(1, (n * Preset(mode).latency_cut) \div 100) ELSE 0

Modes == {"quick", "normal", "thorough", "fast"}

RunScanInit ==
  /\ r_pc = "init"
  /\ \E m \in Modes, n \in 0..MaxAlive : r_in = [mode |-> m, alive_n |-> n]
  /\ r_intr \in BOOLEAN
  /\ r_cut_n = 0
  /\ r_alive = 0
  /\ r_rounds = << >>
  /\ r_cur = 0
  /\ r_cands = 0
  /\ r_tested = << >>

\* lines 8239-8283: from the end of phase 1 to the first phase2_round
RunScanRounds ==
  /\ r_pc = "init"
  /\ IF r_intr \/ r_in.alive_n = 0
     THEN /\ r_pc' = "finished"
          /\ UNCHANGED <<r_cut_n, r_alive, r_rounds, r_cur, r_cands, r_tested>>
     ELSE LET cut == CutN(r_in.mode, r_in.alive_n)
              n == r_in.alive_n - cut
              rounds == BuildDynamicRounds(r_in.mode, n)
          IN  /\ r_cut_n' = cut
              /\ r_alive' = n
              /\ r_rounds' = rounds
              /\ IF rounds = << >>
                 THEN /\ r_pc' = "finished"
                      /\ UNCHANGED <<r_cur, r_cands, r_tested>>
                 ELSE /\ r_pc' = "round"
                      /\ r_cur' = 1
                      /\ r_cands' = Min(rounds[1].keep, n)
                      /\ r_tested' = <<Min(rounds[1].keep, n)>>
  /\ UNCHANGED <<r_in, r_intr>>
  /\ UNCHANGED nonRounds

\* lines 8269-8291: phase2_round returns, the next round starts or the scan
\* is finished
RoundDone ==
  /\ r_pc = "round"
  /\ IF r_cur = Len(r_rounds) \/ r_intr
     THEN /\ r_pc' = "finished"
          /\ UNCHANGED <<r_cur, r_cands, r_tested>>
     ELSE /\ r_cur' = r_cur + 1
          /\ r_cands' = Min(r_rounds[r_cur + 1].keep, r_cands)
          /\ r_tested' = Append(r_tested, Min(r_rounds[r_cur + 1].keep, r_cands))
          /\ UNCHANGED r_pc
  /\ UNCHANGED <<r_in, r_intr, r_cut_n, r_alive, r_rounds>>
  /\ UNCHANGED nonRounds

\* the signal handler sets st.interrupted
RunInterrupt ==
  /\ r_pc = "round"
  /\ ~r_intr
  /\ r_intr' = TRUE
  /\ UNCHANGED <<r_pc, r_in, r_cut_n, r_alive, r_rounds, r_cur, r_cands,
                 r_tested>>
  /\ UNCHANGED nonRounds

RNext == RunScanRounds \/ RoundDone \/ RunInterrupt

RInit ==
  RunScanInit /\ FirstIdle /\ PipeIdle /\ SpeedIdle /\ DedupIdle /\ TunnelIdle
    /\ MoreIdle

SpecRounds == RInit /\ [][RNext]_vars

\* ------------------------------------------------------ claims on the rounds

FunnelClamp(x, lo, hi) ==
  LET a == IF x < lo THEN lo ELSE x
  IN  IF hi > 0 /\ a > hi THEN hi ELSE a

\* C15: with more than 50 IPs left by the latency cut, round k tests
\* clamp(int(n * pct_k / 100), min_k, max_k) of the n IPs left by the cut;
\* mode normal with 300 alive IPs has 180 IPs in its first round, 45 in the
\* second and 18 in the third.
C15_FunnelKeeps ==
  /\ (r_pc # "init" /\ r_alive > 50) =>
       /\ r_alive = r_in.alive_n - r_cut_n
       /\ Len(r_rounds) = Len(Preset(r_in.mode).round_sizes)
       /\ \A k \in DOMAIN r_tested :
            r_tested[k] = FunnelClamp((r_alive * Preset(r_in.mode).round_pcts[k])
                                        \div 100,
                                      Preset(r_in.mode).round_min[k],
                                      Preset(r_in.mode).round_max[k])
       /\ (r_pc = "finished" /\ ~r_intr) => Len(r_tested) = Len(r_rounds)
  /\ (r_pc = "finished" /\ ~r_intr /\ r_in = [mode |-> "normal", alive_n |-> 300])
       => r_alive = 180 /\ r_tested = <<180, 45, 18>>

\* normal with 300 alive IPs has run its three rounds
C15_Witness ==
  /\ r_pc = "finished"
  /\ ~r_intr
  /\ r_in = [mode |-> "normal", alive_n |-> 300]
  /\ r_cut_n = 120
  /\ r_tested = <<180, 45, 18>>

\* the share of the alive IPs that the latency cut of a preset stands for
CutShare(mode, n) == (n * Preset(mode).latency_cut) \div 100

\* C36 as stated: for every preset with a latency cut and every number of
\* alive IPs from 50 on, 50 included, the funnel drops the slowest
\* latency_cut % of the alive IPs before the first speed round; below 50
\* nothing is dropped.
C36_CutFromFifty ==
  (r_alive > 0 /\ Preset(r_in.mode).latency_cut > 0) =>
    /\ r_in.alive_n >= 50 =>
         r_cut_n = CutShare(r_in.mode, r_in.alive_n)
    /\ r_in.alive_n < 50 => r_cut_n = 0
    /\ r_alive = r_in.alive_n - r_cut_n

\* C36, amended: the cut is made for more than 50 alive IPs; for 50 or
\* fewer nothing is dropped.
C36_CutAboveFifty ==
  (r_alive > 0 /\ Preset(r_in.mode).latency_cut > 0) =>
    /\ r_in.alive_n > 50 =>
         r_cut_n = CutShare(r_in.mode, r_in.alive_n)
    /\ r_in.alive_n <= 50 => r_cut_n = 0
    /\ r_alive = r_in.alive_n - r_cut_n

\* quick with 51 alive IPs has dropped the 25 slowest
C36_Witness ==
  /\ r_pc # "init"
  /\ r_in = [mode |-> "quick", alive_n |-> 51]
  /\ r_cut_n = 25
  /\ r_alive = 26

\* quick with exactly 50 alive IPs has dropped none
C36_WitnessFifty ==
  /\ r_pc # "init"
  /\ r_in = [mode |-> "quick", alive_n |-> 50]
  /\ r_cut_n = 0
  /\ r_alive = 50

(***************************************************************************)
(* Part 8: phase2_round (3764-3862), the downloads of one speed round.     *)
(* The go() tasks run the same code, so the state holds how many of them   *)
(* are at each position: "loop" at the top of an attempt (up to and        *)
(* including the wait of rlim.acquire), "sem" in sem.acquire(), "dl" in    *)
(* _dl_one.  sem.acquire() takes a permit only when the value is positive, *)
(* sem.release() gives it back.                                            *)
(***************************************************************************)
BIG_SIZE == 50000000      \* line 3776
BIG_WORKERS == 6          \* line 3777
MID_SIZE == 10000000      \* line 3778
MID_WORKERS == 8          \* line 3779
MAX_RETRIES == 2          \* line 3782

\* lines 3776-3779: the permits of the round's semaphore
SpeedWorkersAsGiven(size, workers) == workers
SpeedWorkers(size, workers) ==
  IF size >= BIG_SIZE THEN Min(workers, BIG_WORKERS)
  ELSE IF size >= MID_SIZE THEN Min(workers, MID_WORKERS)
  ELSE workers

Positions == {"loop1", "sem1", "dl1", "loop2", "sem2", "dl2", "done"}
Loop(a) == IF a = 1 THEN "loop1" ELSE "loop2"
Sem(a) == IF a = 1 THEN "sem1" ELSE "sem2"
Dl(a) == IF a = 1 THEN "dl1" ELSE "dl2"

\* one task goes from position a to position b
Move(a, b) == [h_at EXCEPT ![a] = @ - 1, ![b] = h_at[b] + 1]

RoundSizes == {5000000, 9999999, 10000000, 25000000, 49999999, 50000000}
WorkerCounts == {1, 7, MaxCands}

\* lines 3774-3780 and 3858: the semaphore is made, the tasks are created
SpeedInit ==
  /\ \E size \in RoundSizes, w \in WorkerCounts, n \in {2, MaxCands} :
       /\ h_in = [size |-> size, workers |-> w, candidates |-> n]
       /\ h_sem = SpeedWorkers(size, w)
       /\ h_at = [q \in Positions |-> IF q = "loop1" THEN n ELSE 0]
  /\ h_intr = FALSE

\* lines 3791-3807: an attempt picks its endpoint, waits for the limiter if
\* it has to, and reaches the semaphore; or leaves the loop when interrupted
GoAttempt(a) ==
  /\ h_at[Loop(a)] > 0
  /\ h_at' = Move(Loop(a), IF h_intr THEN "done" ELSE Sem(a))
  /\ UNCHANGED <<h_in, h_intr, h_sem>>
  /\ UNCHANGED nonSpeed

\* lines 3807-3813: sem.acquire() returns; an interrupted task gives the
\* permit back at once (3809-3810, 3815)
GoAcquire(a) ==
  /\ h_at[Sem(a)] > 0
  /\ h_sem > 0
  /\ IF h_intr
     THEN h_at' = Move(Sem(a), "done") /\ UNCHANGED h_sem
     ELSE h_at' = Move(Sem(a), Dl(a)) /\ h_sem' = h_sem - 1
  /\ UNCHANGED <<h_in, h_intr>>
  /\ UNCHANGED nonSpeed

\* lines 3811-3856: _dl_one returns, the permit is given back; the task is
\* done on success and after its last attempt
GoDownloaded(a, ok) ==
  /\ h_at[Dl(a)] > 0
  /\ h_sem' = h_sem + 1
  /\ h_at' = Move(Dl(a), IF ok \/ a = MAX_RETRIES THEN "done" ELSE Loop(a + 1))
  /\ UNCHANGED <<h_in, h_intr>>
  /\ UNCHANGED nonSpeed

\* the signal handler sets st.interrupted
SpeedInterrupt ==
  /\ ~h_intr
  /\ h_at["done"] < h_in.candidates
  /\ h_intr' = TRUE
  /\ UNCHANGED <<h_in, h_sem, h_at>>
  /\ UNCHANGED nonSpeed

HNext ==
  \/ \E a \in 1..MAX_RETRIES : GoAttempt(a)
  \/ \E a \in 1..MAX_RETRIES : GoAcquire(a)
  \/ \E a \in 1..MAX_RETRIES, ok \in BOOLEAN : GoDownloaded(a, ok)
  \/ SpeedInterrupt

HInit ==
  SpeedInit /\ FirstIdle /\ PipeIdle /\ RoundsIdle /\ DedupIdle /\ TunnelIdle
    /\ MoreIdle

SpecSpeed == HInit /\ [][HNext]_vars

\* --------------------------------------------------- claim on a speed round

InFlight == h_at["dl1"] + h_at["dl2"]

\* C14: in a speed round of size >= 50 MB at most 6 downloads are in flight,
\* and in one of size >= 10 MB at most 8, whatever the configured workers
\* and the number of candidates.
C14_DownloadsClamped ==
  /\ h_in.size >= 50000000 => InFlight <= 6
  /\ h_in.size >= 10000000 => InFlight <= 8

\* nine candidates and nine configured workers: six downloads of 50 MB run,
\* the other three tasks wait for a permit
C14_Witness ==
  /\ h_in = [size |-> 50000000, workers |-> MaxCands, candidates |-> MaxCands]
  /\ InFlight = 6
  /\ h_sem = 0
  /\ h_at["sem1"] + h_at["sem2"] = MaxCands - 6

(***************************************************************************)
(* Part 9: what a scan over several ports returns: the result list of      *)
(* scan_clean_ips (3315-3378) and the live IPs of Stage 1 of the pipeline  *)
(* (2796-2830), for the same probes.  d_in.lat[ip][k] is the latency of    *)
(* the probe of ip on d_in.ports[k] when it answered as a Cloudflare edge  *)
(* (lat > 0 and is_cf), and -1 otherwise.  An address "ip" or "ip:port" is *)
(* kept as the pair of its parts.                                          *)
(***************************************************************************)
ScanIps == 1..MaxScanIps
PortLists == { <<443>>, <<443, 8443>>, <<8443, 443>> }
Latencies == {-1, 10, 20}

\* the (ip, port) pairs in the order of the loops at 2796-2798 and 3359
ProbePairs(in) ==
  [n \in 1..(MaxScanIps * Len(in.ports)) |->
     [ip |-> ((n - 1) \div Len(in.ports)) + 1,
      k |-> ((n - 1) % Len(in.ports)) + 1]]

\* the answering probes, as the entries (ip, port, lat)
Answers(in) ==
  LET pairs == ProbePairs(in)
      ok == SelectSeq(pairs, LAMBDA pr : in.lat[pr.ip][pr.k] > 0)
  IN  [n \in DOMAIN ok |->
         [ip |-> ok[n].ip, port |-> in.ports[ok[n].k],
          lat |-> in.lat[ok[n].ip][ok[n].k]]]

\* list.sort(key=latency) and sorted(): stable, ascending
StableSort(s) ==
  LET Rank(i) == Cardinality({ j \in DOMAIN s :
                                 \/ s[j].lat < s[i].lat
                                 \/ s[j].lat = s[i].lat /\ j < i }) + 1
  IN  [k \in DOMAIN s |-> s[CHOOSE i \in DOMAIN s : Rank(i) = k]]

\* the orders in which the probes of a scan can end
Orders(s) ==
  { [k \in DOMAIN s |-> s[q[k]]] :
    q \in { f \in [DOMAIN s -> DOMAIN s] :
            \A i, j \in DOMAIN s : f[i] = f[j] => i = j } }

\* lines 3345-3349 and 3377: an answering probe appends (addr, lat) when it
\* ends; the list is sorted before it is returned
ScanCleanIpsResults(in) ==
  { StableSort([k \in DOMAIN o |->
                  [addr |-> [ip |-> o[k].ip, port |-> o[k].port],
                   lat |-> o[k].lat]]) : o \in Orders(Answers(in)) }

\* line 2823
BetterAlways(lat, best) == TRUE
Better(lat, best) == lat < best

\* lines 2819-2824: _ip_best, as the list of its items in insertion order
RECURSIVE IpBest(_, _)
IpBest(results, best) ==
  IF results = << >> THEN best
  ELSE LET r == Head(results)
           at == { i \in DOMAIN best : best[i].ip = r.ip }
       IN  IpBest(Tail(results),
                  IF at = {} THEN Append(best, [ip |-> r.ip, lat |-> r.lat])
                  ELSE LET i == CHOOSE i \in at : TRUE
                       IN  IF Better(r.lat, best[i].lat)
                           THEN [best EXCEPT ![i].lat = r.lat] ELSE best)

\* lines 2825-2828: the ports of an IP in the order found, without repeats
LiveIpPorts(results) ==
  [ip \in ScanIps |->
     LET mine == SelectSeq(results, LAMBDA r : r.ip = ip)
         kept == SelectSeq([n \in DOMAIN mine |-> n],
                           LAMBDA n : \A m \in 1..(n - 1) :
                                        mine[m].port # mine[n].port)
     IN  [n \in DOMAIN kept |-> mine[kept[n]].port]]

DedupInit ==
  /\ \E ports \in PortLists :
       \E lat \in [ScanIps -> [1..Len(ports) -> Latencies]] :
         d_in = [ports |-> ports, lat |-> lat]
  /\ d_pc = "init"
  /\ d_results = << >>
  /\ d_stage = "init"
  /\ d_live_ips = << >>
  /\ d_live_ip_ports = << >>

\* scan_clean_ips(ips, ports=ports) with no interrupt, lines 3315-3378
ScanCleanIps ==
  /\ d_pc = "init"
  /\ d_results' \in ScanCleanIpsResults(d_in)
  /\ d_pc' = "done"
  /\ UNCHANGED <<d_in, d_stage, d_live_ips, d_live_ip_ports>>
  /\ UNCHANGED nonDedup

\* lines 2817-2830: gather returns the results in the order of probe_pairs,
\* None for a probe that did not answer
StageOneDedup ==
  /\ d_stage = "init"
  /\ d_live_ips' = StableSort(IpBest(Answers(d_in), << >>))
  /\ d_live_ip_ports' = LiveIpPorts(Answers(d_in))
  /\ d_stage' = "done"
  /\ UNCHANGED <<d_in, d_pc, d_results>>
  /\ UNCHANGED nonDedup

DNext == ScanCleanIps \/ StageOneDedup

DInit ==
  DedupInit /\ FirstIdle /\ PipeIdle /\ RoundsIdle /\ SpeedIdle /\ TunnelIdle
    /\ MoreIdle

SpecDedup == DInit /\ [][DNext]_vars

\* ------------------------------------------------- claims on the scan result

AnsweringPorts(ip) ==
  { d_in.ports[k] : k \in { j \in DOMAIN d_in.ports : d_in.lat[ip][j] > 0 } }
MinLatency(ip) ==
  CHOOSE l \in { d_in.lat[ip][k] : k \in DOMAIN d_in.ports } :
    /\ l > 0
    /\ \A k \in DOMAIN d_in.ports : d_in.lat[ip][k] > 0 => l <= d_in.lat[ip][k]
Ascending(s) == \A i, j \in DOMAIN s : i < j => s[i].lat <= s[j].lat

\* C16 as stated: the result list of the scan (scan_clean_ips) holds exactly
\* one entry for an IP that answered on more than one port, with the minimum
\* latency over its answering ports.
C16_OneEntryPerIp ==
  d_pc = "done" =>
    \A ip \in ScanIps :
      Cardinality(AnsweringPorts(ip)) > 1 =>
        /\ Cardinality({ n \in DOMAIN d_results : d_results[n].addr.ip = ip }) = 1
        /\ \A n \in DOMAIN d_results :
             d_results[n].addr.ip = ip => d_results[n].lat = MinLatency(ip)

\* C16 amended: the list returned by scan_clean_ips holds one entry per
\* answering (ip, port), with the latency of that probe, in ascending order
\* of latency; Stage 1 of the pipeline holds in live_ips exactly one entry
\* per answering IP, with the minimum latency over its answering ports, in
\* ascending order, and in live_ip_ports the answering ports of every IP,
\* each once.
C16_PerPortThenPerIp ==
  /\ d_pc = "done" =>
       /\ Ascending(d_results)
       /\ \A ip \in ScanIps, k \in DOMAIN d_in.ports :
            Cardinality({ n \in DOMAIN d_results :
                            /\ d_results[n].addr = [ip |-> ip, port |-> d_in.ports[k]]
                            /\ d_results[n].lat = d_in.lat[ip][k] })
              = IF d_in.lat[ip][k] > 0 THEN 1 ELSE 0
       /\ Len(d_results) = Cardinality({ pr \in ScanIps \X DOMAIN d_in.ports :
                                           d_in.lat[pr[1]][pr[2]] > 0 })
  /\ d_stage = "done" =>
       /\ Ascending(d_live_ips)
       /\ \A ip \in ScanIps :
            /\ Cardinality({ n \in DOMAIN d_live_ips : d_live_ips[n].ip = ip })
                 = IF AnsweringPorts(ip) # {} THEN 1 ELSE 0
            /\ \A n \in DOMAIN d_live_ips :
                 d_live_ips[n].ip = ip => d_live_ips[n].lat = MinLatency(ip)
            /\ Range(d_live_ip_ports[ip]) = AnsweringPorts(ip)
            /\ Len(d_live_ip_ports[ip]) = Cardinality(AnsweringPorts(ip))

\* an IP answered on both ports, faster on the second: the scan's list has
\* its two addresses, Stage 1 has it once with the faster latency
C16_Witness ==
  /\ d_pc = "done"
  /\ d_stage = "done"
  /\ d_in.ports = <<443, 8443>>
  /\ d_in.lat[1] = <<20, 10>>
  /\ d_in.lat[2] = <<10, -1>>
  /\ Len(d_results) = 3
  /\ d_live_ips = <<[ip |-> 1, lat |-> 10], [ip |-> 2, lat |-> 10]>>
  /\ d_live_ip_ports[1] = <<443, 8443>>

\* ---------------------------------------------------------------------------
\* Part 10.  The native VLESS-over-WebSocket prober, frame by frame:
\* _WsFrameParser, _vless_ws_read_tunnel and _vless_ws_speed_test.
\*
\* Bytes are numbers 0..255.  The inner HTTP response is written in tokens of
\* one byte each: a status line with its code (S200, S204, S404), the end of
\* the header "\r\n\r\n" (HEnd), a body byte (BodyByte).  The prober only
\* looks for the end of the header and then reads the code of the first line,
\* so a token per piece keeps what it does.  Times are in ms; the clock
\* time.monotonic() is taken to grow between two readings, so a measured
\* duration is at least 1.  Speeds are in units of 0.001.
\* ---------------------------------------------------------------------------

HEnd == 13
BodyByte == 98
S200 == 200
S204 == 204
S404 == 144

\* the body size after which the probe stops reading
BODY_ENOUGH == 50

\* the sizes of chunk that reader.read returns, besides all that is left
MaxChunk == 2

Drop(s, n) == IF n >= Len(s) THEN << >> ELSE SubSeq(s, n + 1, Len(s))

Bit(a, k) == (a \div (2 ^ k)) % 2

\* b ^ mask_key[i % 4] on bytes
Xor(a, b) ==
  LET x(k) == ((Bit(a, k) + Bit(b, k)) % 2) * (2 ^ k)
  IN  x(0) + x(1) + x(2) + x(3) + x(4) + x(5) + x(6) + x(7)

\* int.from_bytes(bytes, 'big')
RECURSIVE FromBytes(_)
FromBytes(bs) ==
  IF bs = << >> THEN 0
  ELSE FromBytes(SubSeq(bs, 1, Len(bs) - 1)) * 256 + bs[Len(bs)]

\* next_frame emptying its buffer when it returns None ("as" of a mutation
\* of NextFrame)
NextFrameConsuming(buf) ==
  LET none == [ok |-> FALSE, op |-> 0, payload |-> << >>, rest |-> << >>]
  IN
  IF Len(buf) < 2 THEN none
  ELSE
    LET opcode == buf[1] % 16
        masked == buf[2] >= 128
        plen7 == buf[2] % 128
        off0 == IF plen7 = 126 THEN 4 ELSE IF plen7 = 127 THEN 10 ELSE 2
        off == IF masked THEN off0 + 4 ELSE off0
    IN
    IF Len(buf) < off0 THEN none
    ELSE IF masked /\ Len(buf) < off0 + 4 THEN none
    ELSE
      LET plen == IF off0 = 2 THEN plen7 ELSE FromBytes(SubSeq(buf, 3, off0))
      IN
      IF Len(buf) < off + plen THEN none
      ELSE
        LET raw == SubSeq(buf, off + 1, off + plen)
            mask_key == SubSeq(buf, off - 3, off)
            payload ==
              IF masked
              THEN [i \in 1..plen |-> Xor(raw[i], mask_key[((i - 1) % 4) + 1])]
              ELSE raw
        IN  [ok |-> TRUE, op |-> opcode, payload |-> payload,
             rest |-> Drop(buf, off + plen)]

\* _WsFrameParser.next_frame on the buffer: the next complete frame and the
\* buffer after it, or ok = FALSE when the frame is not yet complete
NextFrame(buf) ==
  LET none == [ok |-> FALSE, op |-> 0, payload |-> << >>, rest |-> buf]
  IN
  IF Len(buf) < 2 THEN none
  ELSE
    LET opcode == buf[1] % 16
        masked == buf[2] >= 128
        plen7 == buf[2] % 128
        off0 == IF plen7 = 126 THEN 4 ELSE IF plen7 = 127 THEN 10 ELSE 2
        off == IF masked THEN off0 + 4 ELSE off0
    IN
    IF Len(buf) < off0 THEN none
    ELSE IF masked /\ Len(buf) < off0 + 4 THEN none
    ELSE
      LET plen == IF off0 = 2 THEN plen7 ELSE FromBytes(SubSeq(buf, 3, off0))
      IN
      IF Len(buf) < off + plen THEN none
      ELSE
        LET raw == SubSeq(buf, off + 1, off + plen)
            mask_key == SubSeq(buf, off - 3, off)
            payload ==
              IF masked
              THEN [i \in 1..plen |-> Xor(raw[i], mask_key[((i - 1) % 4) + 1])]
              ELSE raw
        IN  [ok |-> TRUE, op |-> opcode, payload |-> payload,
             rest |-> Drop(buf, off + plen)]

\* the close code treated as absent ("as" of a mutation of CloseCode)
CloseCodeDropped(payload) == 0

\* the code of a close frame
CloseCode(payload) ==
  IF Len(payload) >= 2 THEN FromBytes(SubSeq(payload, 1, 2)) ELSE 0

\* _vless_ws_read_tunnel from the top of its loop to the point where it
\* returns or has to read from the network (kind = "need")
RECURSIVE ReadTunnel(_, _)
ReadTunnel(buf, vless) ==
  LET f == NextFrame(buf)
      out(kind, v, data, reason) ==
        [kind |-> kind, buf |-> f.rest, vless |-> v, data |-> data,
         reason |-> reason]
  IN
  IF ~f.ok THEN out("need", vless, << >>, NoError)
  ELSE IF f.op = 8
    THEN out("closed", vless, << >>, Err("ws-close", CloseCode(f.payload)))
  ELSE IF f.op \notin {0, 2} THEN ReadTunnel(f.rest, vless)
  ELSE IF ~vless
    THEN IF Len(f.payload) >= 2 /\ f.payload[1] = 0
           THEN LET payload == Drop(f.payload, 2 + f.payload[2])
                IN  IF payload = << >> THEN ReadTunnel(f.rest, TRUE)
                    ELSE out("data", TRUE, payload, NoError)
         ELSE IF f.payload # << >>
           THEN out("closed", vless, << >>, Err("vless-bad", 0))
         ELSE ReadTunnel(f.rest, vless)
  ELSE IF f.payload = << >> THEN ReadTunnel(f.rest, vless)
  ELSE out("data", vless, f.payload, NoError)

Ret(connect_ms, ttfb_ms, mbps, error) ==
  [connect_ms |-> connect_ms, ttfb_ms |-> ttfb_ms, mbps |-> mbps,
   error |-> error]

\* only 200 is accepted ("as" of a mutation of ProbeOk)
ProbeOkOnly200(h_code) == h_code = S200

\* h_code in ("200", "204")
ProbeOk(h_code) == h_code \in {S200, S204}

\* the place of the end of the header in http_buf, 0 when it is not there
HSep(http_buf) ==
  IF HEnd \in Range(http_buf)
  THEN CHOOSE i \in DOMAIN http_buf :
         http_buf[i] = HEnd /\ \A j \in 1..(i - 1) : http_buf[j] # HEnd
  ELSE 0

\* the code of the first line of the header: "" (0) when the line has none
HCode(http_buf) ==
  IF HSep(http_buf) > 1 /\ http_buf[1] \in {S200, S204, S404}
  THEN http_buf[1] ELSE 0

\* _vless_ws_speed_test after its loop; dl is the time since ttfb
Finish(st, dl) ==
  IF ~st.http
  THEN [st EXCEPT !.pc = "done",
                  !.ret = Ret(st.ret.connect_ms, -1, 0,
                              Err("probe-no-response", 0))]
  ELSE
    LET dl_t == st.ret.ttfb_ms + dl
        mbps == IF dl_t > 1 THEN st.body \div dl_t ELSE 10
    IN  [st EXCEPT !.pc = "done",
                   !.ret = Ret(st.ret.connect_ms, st.ret.ttfb_ms,
                               Max(mbps, 1), NoError)]

\* the loop of _vless_ws_speed_test from its test of the deadline
\* (SpeedLoop), and from the return of _vless_ws_read_tunnel (Handle), to
\* the return or to the next read from the network.  tt is the time to first
\* byte measured if the header completes, dl the time measured after it.
RECURSIVE SpeedLoop(_, _, _, _), Handle(_, _, _, _, _)
SpeedLoop(st, late, tt, dl) ==
  IF late THEN Finish(st, dl)
  ELSE CHOOSE s \in { Handle(st, r, late, tt, dl) :
                      r \in {ReadTunnel(st.buf, st.vless)} } : TRUE

Handle(st, r, late, tt, dl) ==
  LET s1 == [st EXCEPT !.buf = r.buf, !.vless = r.vless]
      next(s) == CHOOSE x \in { SpeedLoop(y, late, tt, dl) : y \in {s} } : TRUE
  IN
  IF r.kind = "need" THEN [s1 EXCEPT !.pc = "tunnel"]
  ELSE IF r.kind = "closed"
    THEN IF ~s1.http
           THEN [s1 EXCEPT !.pc = "done",
                           !.ret = Ret(s1.ret.connect_ms, -1, 0, r.reason)]
         ELSE Finish(s1, dl)
  ELSE IF ~s1.http
    THEN LET http_buf == s1.http_buf \o r.data
             h_sep == HSep(http_buf)
         IN
         IF h_sep = 0 THEN next([s1 EXCEPT !.http_buf = http_buf])
         ELSE IF ~ProbeOk(HCode(http_buf))
           THEN [s1 EXCEPT !.pc = "done", !.http_buf = http_buf,
                           !.ret = Ret(s1.ret.connect_ms, -1, 0,
                                       Err("probe-http", HCode(http_buf)))]
         ELSE next([s1 EXCEPT !.http_buf = http_buf, !.http = TRUE,
                              !.body = Len(http_buf) - h_sep,
                              !.ret = Ret(s1.ret.connect_ms, tt, 0, NoError)])
  ELSE LET body_total == s1.body + Len(r.data)
       IN  IF body_total > BODY_ENOUGH
           THEN Finish([s1 EXCEPT !.body = body_total], dl)
           ELSE next([s1 EXCEPT !.body = body_total])

\* ---- what the server sends --------------------------------------------

\* a frame on the wire: FIN, the opcode, the length in 7 bits or 16, a
\* mask key when masked, the payload
Mask == <<5, 6, 7, 8>>
Frame(op, payload) == [op |-> op, payload |-> payload, masked |-> FALSE, ext |-> FALSE]
Encode(f) ==
  LET n == Len(f.payload)
      m == IF f.masked THEN 128 ELSE 0
      len == IF f.ext THEN <<m + 126, n \div 256, n % 256>> ELSE <<m + n>>
      key == IF f.masked THEN Mask ELSE << >>
      pay == IF f.masked
             THEN [i \in 1..n |-> Xor(f.payload[i], Mask[((i - 1) % 4) + 1])]
             ELSE f.payload
  IN  <<128 + f.op>> \o len \o key \o pay

F_VH == Frame(2, <<0, 0>>)
F_VH1 == Frame(0, <<0, 1, 7>>)
F_VHOK == Frame(2, <<0, 0, S200, HEnd, BodyByte, BodyByte, BodyByte>>)
F_MASKED == [op |-> 2, payload |-> <<0, 0, S204, HEnd>>, masked |-> TRUE, ext |-> FALSE]
F_H200 == Frame(2, <<S200>>)
F_HEND == Frame(0, <<HEnd, BodyByte>>)
F_H404 == Frame(2, <<S404, HEnd>>)
F_BODY == [op |-> 2, payload |-> [i \in 1..(BODY_ENOUGH + 1) |-> BodyByte],
           masked |-> FALSE, ext |-> TRUE]
F_BAD == Frame(2, <<1, 2>>)
F_EMPTY == Frame(2, << >>)
F_PING == Frame(9, << >>)
F_CLOSE == Frame(8, <<3, 234>>)
F_CLOSE1 == Frame(8, <<3>>)

Library ==
  { F_VH, F_VH1, F_VHOK, F_MASKED, F_H200, F_HEND, F_H404, F_BODY, F_BAD,
    F_EMPTY, F_PING, F_CLOSE, F_CLOSE1 }

\* the answers to the upgrade other than 101, by the error they return
UpgradeErrors ==
  { "ws-hdr-timeout", "ws-eof", "ws-hdr-overflow", "ws-403", "ws-no-resp",
    "timeout", "oserror", "ValueError" }

\* the ways a read from the network ends without data
ReadErrors == { "tunnel-timeout", "tunnel", "tunnel-eof" }

Durations == {1, MaxMs}

TunnelInit ==
  /\ w_pc = "start"
  /\ \E up \in UpgradeErrors \cup {"101"} :
       \E n \in 0..MaxFrames :
         \E fs \in [1..n -> Library] :
           /\ (up # "101") => n = 0
           /\ w_in = [upgrade |-> up, frames |-> fs,
                      wire |-> Flatten([i \in 1..n |-> Encode(fs[i])])]
  /\ w_pos = 0
  /\ w_buf = << >>
  /\ w_vless = FALSE
  /\ w_http = FALSE
  /\ w_http_buf = << >>
  /\ w_body = 0
  /\ w_late = FALSE
  /\ w_ret = Ret(-1, -1, 0, NoError)

\* the variables after a run of the loop
WsSet(s, pos) ==
  /\ w_pc' = s.pc
  /\ w_pos' = pos
  /\ w_buf' = s.buf
  /\ w_vless' = s.vless
  /\ w_http' = s.http
  /\ w_http_buf' = s.http_buf
  /\ w_body' = s.body
  /\ w_ret' = s.ret
  /\ UNCHANGED <<w_in, w_late, nonTunnel>>

WsState ==
  [pc |-> w_pc, buf |-> w_buf, vless |-> w_vless, http |-> w_http,
   http_buf |-> w_http_buf, body |-> w_body, ret |-> w_ret]

\* the sizes of the next chunk
Chunks == { k \in 1..(Len(w_in.wire) - w_pos) :
              k <= MaxChunk \/ k = Len(w_in.wire) - w_pos }

\* the connection and the upgrade fail: the return before the tunnel
WsUpgradeFails ==
  /\ w_pc = "start"
  /\ w_in.upgrade # "101"
  /\ w_pc' = "done"
  /\ w_ret' = Ret(-1, -1, 0, Err(w_in.upgrade, 0))
  /\ UNCHANGED <<w_in, w_pos, w_buf, w_vless, w_http, w_http_buf, w_body,
                 w_late, nonTunnel>>

\* the upgrade is answered with 101, with the first x bytes of the frames in
\* the same chunk; the VLESS request is sent and the loop runs on these bytes
WsUpgrade ==
  /\ w_pc = "start"
  /\ w_in.upgrade = "101"
  /\ \E connect_ms \in Durations, tt \in Durations, dl \in Durations :
       \E x \in Chunks \cup {0} :
         \E s \in { SpeedLoop([WsState EXCEPT !.buf = SubSeq(w_in.wire, 1, x),
                                              !.ret = Ret(connect_ms, -1, 0, NoError)],
                              FALSE, tt, dl) } :
           WsSet(s, x)

\* reader.read returns the next k bytes: _vless_ws_read_tunnel goes on, then
\* the loop
WsRead ==
  /\ w_pc = "tunnel"
  /\ \E k \in Chunks, tt \in Durations, dl \in Durations :
       \E r \in { ReadTunnel(w_buf \o SubSeq(w_in.wire, w_pos + 1, w_pos + k),
                             w_vless) } :
         \E s \in { Handle(WsState, r, w_late, tt, dl) } :
           WsSet(s, w_pos + k)

\* reader.read times out, fails or returns nothing
WsReadEnds ==
  /\ w_pc = "tunnel"
  /\ \E kind \in ReadErrors, tt \in Durations, dl \in Durations :
       \E s \in { Handle(WsState,
                         [kind |-> "closed", buf |-> w_buf, vless |-> w_vless,
                          data |-> << >>, reason |-> Err(kind, 0)],
                         w_late, tt, dl) } :
         WsSet(s, w_pos)

\* the clock reaches dl_deadline while the probe waits for the network
WsLate ==
  /\ w_pc = "tunnel"
  /\ ~w_late
  /\ w_late' = TRUE
  /\ UNCHANGED <<w_pc, w_in, w_pos, w_buf, w_vless, w_http, w_http_buf,
                 w_body, w_ret, nonTunnel>>

\* the task is cancelled while the probe waits for the network
WsCancelled ==
  /\ w_pc = "tunnel"
  /\ w_pc' = "done"
  /\ w_ret' = Ret(-1, -1, 0, Err("cancelled", 0))
  /\ UNCHANGED <<w_in, w_pos, w_buf, w_vless, w_http, w_http_buf, w_body,
                 w_late, nonTunnel>>

WNext == WsUpgradeFails \/ WsUpgrade \/ WsRead \/ WsReadEnds \/ WsLate \/ WsCancelled

WInit ==
  TunnelInit /\ FirstIdle /\ PipeIdle /\ RoundsIdle /\ SpeedIdle /\ DedupIdle
    /\ MoreIdle

SpecTunnel == WInit /\ [][WNext]_vars

\* ---- claims on the prober ---------------------------------------------

\* the frames of the server wholly received so far
RECURSIVE DeliveredFrames(_, _)
DeliveredFrames(fs, n) ==
  IF fs = << >> \/ Len(Encode(Head(fs))) > n THEN << >>
  ELSE <<Head(fs)>> \o DeliveredFrames(Tail(fs), n - Len(Encode(Head(fs))))

Delivered == DeliveredFrames(w_in.frames, w_pos)

\* the place of the first close frame, one past the end when there is none
FirstClose(fs) ==
  IF \E i \in DOMAIN fs : fs[i].op = 8
  THEN CHOOSE i \in DOMAIN fs :
         fs[i].op = 8 /\ \A j \in 1..(i - 1) : fs[j].op # 8
  ELSE Len(fs) + 1

\* the non-empty payloads of the data frames before the first close frame
DataBeforeClose(fs) ==
  LET before == SubSeq(fs, 1, FirstClose(fs) - 1)
      data == SelectSeq(before, LAMBDA f : f.op \in {0, 2} /\ f.payload # << >>)
  IN  [i \in DOMAIN data |-> data[i].payload]

\* the payload starts with a VLESS response header: version 0, the length of
\* the addons, the addons
ValidVless(p) == Len(p) >= 2 /\ p[1] = 0 /\ Len(p) >= 2 + p[2]

\* the first data is a valid VLESS header, and what follows it is an HTTP
\* response with a complete header and the code 200 or 204
AnswersOk(fs) ==
  LET ps == DataBeforeClose(fs)
  IN  /\ ps # << >>
      /\ ValidVless(ps[1])
      /\ LET inner == Drop(ps[1], 2 + ps[1][2]) \o Flatten(Tail(ps))
         IN  /\ HEnd \in Range(inner)
             /\ inner[1] \in {S200, S204}

TunnelSuccess ==
  /\ w_ret.error = NoError
  /\ w_ret.mbps > 0
  /\ w_ret.connect_ms > 0
  /\ w_ret.ttfb_ms > 0

TunnelFailure == w_ret.mbps = 0 /\ w_ret.error # NoError

CloseBeforeHeader ==
  /\ w_pc = "done"
  /\ w_in.upgrade = "101"
  /\ ~w_late
  /\ FirstClose(Delivered) <= Len(Delivered)
  /\ HEnd \notin Range(Flatten(DataBeforeClose(Delivered)))

TheClose == Delivered[FirstClose(Delivered)]

\* C18 as stated: after the 101 and before the inner HTTP header is complete,
\* a close frame makes the prober return mbps = 0 and the error WsClose(code),
\* the code being the first two bytes of its payload, whatever the frames
\* before it.
C18_CloseWhateverPrecedes ==
  CloseBeforeHeader =>
    /\ w_ret.mbps = 0
    /\ w_ret.error.kind = "ws-close"
    /\ Len(TheClose.payload) >= 2 =>
         w_ret.error.code = FromBytes(SubSeq(TheClose.payload, 1, 2))

\* C18: after the 101 and before the inner HTTP header is complete, a close
\* frame makes the prober return mbps = 0 and the error WsClose(code), when
\* the data before it, if any, starts with a VLESS header; the code is the
\* first two bytes of the payload, 0 when the payload is shorter.
C18_CloseAfterValidData ==
  (/\ CloseBeforeHeader
   /\ LET ps == DataBeforeClose(Delivered)
      IN  ps # << >> => Len(ps[1]) >= 2 /\ ps[1][1] = 0)
  =>
    /\ w_ret.mbps = 0
    /\ w_ret.error.kind = "ws-close"
    /\ w_ret.error.code =
         IF Len(TheClose.payload) >= 2
         THEN FromBytes(SubSeq(TheClose.payload, 1, 2)) ELSE 0

\* the header, a part of the HTTP header, then the close frame with the code
\* 1002, received in more than one chunk
C18_Witness ==
  /\ w_pc = "done"
  /\ w_in.frames = <<F_VH, F_H200, F_CLOSE>>
  /\ w_vless
  /\ w_http_buf = <<S200>>
  /\ w_buf = << >>
  /\ w_ret = Ret(w_ret.connect_ms, -1, 0, Err("ws-close", 1002))

\* ---------------------------------------------------------------------------
\* Part 11.  The gathers of Stage 2 and Stage 3 of xray_pipeline_test
\* (2930-2955, 3057-3082) with as many variations as the semaphores and the
\* chunks are made for.  The tasks of a gather differ only in their
\* variation, so they are kept as the number of tasks at each position.  The
\* fallback-SNI tests, awaited one at a time between the stages, are left
\* out.
\* ---------------------------------------------------------------------------

\* a semaphore that lets every task in ("as" of a mutation of SemFree)
SemFreeAlways(testing, cap) == TRUE

\* asyncio.Semaphore(cap): a task gets in while fewer than cap hold it
SemFree(testing, cap) == testing < cap

\* 2952-2953, 3078-3079: the loop goes on to the next gather
WaveGoesOn(intr) == ~intr

StageSem == [base_test |-> BASE_SEM, expansion |-> EXP_SEM]
StageChunk == [base_test |-> BASE_BATCH, expansion |-> EXP_CHUNK]
StageCount(stage) == IF stage = "base_test" THEN e_in.n_base ELSE e_in.n_exp

NoTasks == [created |-> 0, wait |-> 0, testing |-> 0, done |-> 0]

WavesInit ==
  /\ e_pc = "init"
  /\ \E nb \in {1, BASE_SEM + 2, MaxBaseTests}, ne \in {0, EXP_SEM + 5, MaxExpTests} :
       e_in = [n_base |-> nb, n_exp |-> ne]
  /\ e_ci = 0
  /\ e_at = NoTasks
  /\ e_intr \in BOOLEAN
  /\ e_waves = << >>

\* the loop of a stage from its test of the flag: the next gather starts,
\* or the stage ends: Stage 3 follows Stage 2 when the run is not interrupted
\* and there are variations to test (2999-3014), the run ends after Stage 3
RECURSIVE WaveLoop(_, _)
WaveLoop(stage, ci) ==
  IF ci < StageCount(stage) /\ WaveGoesOn(e_intr)
  THEN LET size == Min(StageChunk[stage], StageCount(stage) - ci)
       IN  /\ e_pc' = stage
           /\ e_ci' = ci
           /\ e_at' = [NoTasks EXCEPT !.created = size]
           /\ e_waves' = Append(e_waves, [stage |-> stage, size |-> size,
                                          intr |-> e_intr])
  ELSE IF stage = "base_test" /\ ~e_intr /\ e_in.n_exp > 0
  THEN WaveLoop("expansion", 0)
  ELSE /\ e_pc' = "finished"
       /\ e_at' = NoTasks
       /\ UNCHANGED <<e_ci, e_waves>>

\* Stage 2 begins
WavesBegin ==
  /\ e_pc = "init"
  /\ WaveLoop("base_test", 0)
  /\ UNCHANGED <<e_in, e_intr, nonWaves>>

Active == e_pc \in {"base_test", "expansion"}

\* a task from "async with sem" on (2934-2937, 3061-3064): it tests, or
\* returns at once when the run is interrupted
WaveEnter(from) ==
  /\ e_at[from] > 0
  /\ SemFree(e_at.testing, StageSem[e_pc])
  /\ e_at' = IF e_intr
             THEN [e_at EXCEPT ![from] = @ - 1, !.done = @ + 1]
             ELSE [e_at EXCEPT ![from] = @ - 1, !.testing = @ + 1]

\* a task of the gather runs for the first time
WaveTaskStart ==
  /\ Active
  /\ e_at.created > 0
  /\ IF SemFree(e_at.testing, StageSem[e_pc])
     THEN WaveEnter("created")
     ELSE e_at' = [e_at EXCEPT !.created = @ - 1, !.wait = @ + 1]
  /\ UNCHANGED <<e_pc, e_in, e_ci, e_intr, e_waves, nonWaves>>

\* a task that waited for the semaphore gets it
WaveTaskWake ==
  /\ Active
  /\ WaveEnter("wait")
  /\ UNCHANGED <<e_pc, e_in, e_ci, e_intr, e_waves, nonWaves>>

\* a test returns and its task leaves the semaphore (2938-2949, 3066-3073)
WaveTestEnd ==
  /\ Active
  /\ e_at.testing > 0
  /\ e_at' = [e_at EXCEPT !.testing = @ - 1, !.done = @ + 1]
  /\ UNCHANGED <<e_pc, e_in, e_ci, e_intr, e_waves, nonWaves>>

\* the gather returns and the loop goes round (2951-2955, 3077-3082)
WaveGatherDone ==
  /\ Active
  /\ e_at.created = 0 /\ e_at.wait = 0 /\ e_at.testing = 0
  /\ WaveLoop(e_pc, e_ci + StageChunk[e_pc])
  /\ UNCHANGED <<e_in, e_intr, nonWaves>>

\* _sig, lines 5206-5209
WavesInterrupt ==
  /\ Active
  /\ ~e_intr
  /\ e_intr' = TRUE
  /\ UNCHANGED <<e_pc, e_in, e_ci, e_at, e_waves, nonWaves>>

\* lines 5212-5216: the cancellation reaches the gather and its tasks
WavesCancelled ==
  /\ Active
  /\ e_intr
  /\ e_pc' = "finished"
  /\ e_at' = NoTasks
  /\ UNCHANGED <<e_in, e_ci, e_intr, e_waves, nonWaves>>

ENext ==
  \/ WavesBegin
  \/ WaveTaskStart
  \/ WaveTaskWake
  \/ WaveTestEnd
  \/ WaveGatherDone
  \/ WavesInterrupt
  \/ WavesCancelled

EInit == WavesInit /\ FirstIdle /\ LaterIdle /\ ScoresIdle /\ ProxyIdle /\ ProbeIdle /\ MutexIdle /\ ObservedIdle /\ FunnelIdle /\ StripIdle /\ UpgradeIdle /\ PartialIdle /\ PortsIdle /\ ParserIdle /\ FinishIdle

SpecWaves == EInit /\ [][ENext]_vars

\* C28: at every moment at most 10 base tests are in flight in Stage
\* BASE-TEST and at most 20 expansion tests in Stage EXPANSION; the
\* expansion tests are launched in waves of at most 60, and the interrupt
\* flag is read (and found clear) before each wave.
C28_CapsAndWaves ==
  /\ e_pc = "base_test" => e_at.testing <= 10
  /\ e_pc = "expansion" => e_at.testing <= 20
  /\ \A i \in DOMAIN e_waves :
       e_waves[i].stage = "expansion" =>
         e_waves[i].size <= 60 /\ ~e_waves[i].intr

\* the second wave of Stage 3 runs after a wave of 60, in which 20 tests
\* were in flight while others waited; before it, 10 base tests at most
C28_Witness ==
  /\ e_pc = "expansion"
  /\ Len(e_waves) >= 3
  /\ e_waves[Len(e_waves) - 1] = [stage |-> "expansion", size |-> 60, intr |-> FALSE]
  /\ e_at.testing = 1
  /\ e_in.n_base > 10


\* ---------------------------------------------------------------------------
\* Part 12.  The scores of the records of a finished run: _xray_calc_scores
\* over xst.variations and calc_scores over st.res.
\*
\* Times are whole milliseconds, speeds thousandths of a Mbps, an error is
\* the length of its text, a score is in tenths (round(x, 1)).
\* ---------------------------------------------------------------------------

\* 'lat = max(0.0, 100.0 - cms / 10.0)' is 0 from this connect time on
LAT_ZERO_MS == 1000
\* 'ttfb = max(0.0, 100.0 - tms / 5.0)' is 0 from this time on
TTFB_ZERO_MS == 500
\* the longest slice of an error text: str(e)[:60], xp.last_error[:60]
ERR_CUT == 60
\* xp.last_error[:40] after a failed start
START_ERR_CUT == 40
\* 'spd = min(100.0, v.speed_mbps * 20.0)'
SPD_FACTOR == 20
\* 'v.speed_mbps < 0.01', in thousandths of a Mbps
SPEED_FLOOR == 10

\* lat, ttfb and spd in thousandths of a point
LatPoints(ms) == Max(0, 100000 - ms * 100)
TtfbPoints(ms) == Max(0, 100000 - ms * 200)
SpdPoints(mbps) == Min(100000, mbps * SPD_FACTOR)

\* round(x, 1) of a weighted sum whose weights are hundredths: the sum is in
\* 1/100000 of a point, the result in tenths
Round1(x) == (x + 5000) \div 10000

\* _xray_calc_scores, the body of its loop for one variation (2388-2400)
XrayScore(v) ==
  LET cms == IF v.connect_ms >= 0 THEN v.connect_ms ELSE LAT_ZERO_MS
      tms == IF v.ttfb_ms >= 0 THEN v.ttfb_ms ELSE LAT_ZERO_MS
  IN  IF ~v.alive THEN 0
      ELSE IF v.native_tested \/ v.speed_mbps < SPEED_FLOOR
      THEN Round1(LatPoints(cms) * 55 + TtfbPoints(tms) * 45)
      ELSE Round1(LatPoints(cms) * 35 + SpdPoints(v.speed_mbps) * 50
                  + TtfbPoints(tms) * 15)

\* calc_scores, the body of its loop for one Result (3873-3886)
ResultScore(r, has_speed) ==
  LET lat == IF r.tls_ms > 0 THEN LatPoints(r.tls_ms) ELSE 0
      spd == IF r.best_mbps > 0 THEN SpdPoints(r.best_mbps) ELSE 0
      ttfb == IF r.ttfb_ms > 0 THEN TtfbPoints(r.ttfb_ms) ELSE 0
  IN  IF ~r.alive THEN 0
      ELSE IF r.best_mbps > 0 THEN Round1(lat * 35 + spd * 50 + ttfb * 15)
      ELSE IF has_speed THEN Round1(lat * 35)
      ELSE Round1(lat * 100)

\* text[:k] and 'err or d', on lengths
Cut(n, k) == Min(n, k)
ErrOr(n, d) == IF n = 0 THEN d ELSE n

\* what a test can measure
ConnectMs == {1, LAT_ZERO_MS \div 2, LAT_ZERO_MS, 3 * LAT_ZERO_MS}
TtfbMs == {1, TTFB_ZERO_MS \div 2, TTFB_ZERO_MS, 4 * TTFB_ZERO_MS}
\* max(mbps, 0.001) of the tunnel test (2017), and faster
Speeds == {1, SPEED_FLOOR, 5000}
\* the length of str(e) of an exception, of the status token of the first
\* line of the answer, of the tail of the stderr file
ExcLens == {0, 20, 200}
CodeLens == {3, 64}
StderrLens == {0, 17, 200}

\* the error texts of _vless_ws_speed_test (1934-2026) with the connect time
\* they come with
NativeFailures ==
  [connect_ms : {-1}, error_len : {Len("ws-hdr-timeout"), Len("timeout"),
                                   Len("cancelled")}
                                  \cup {Cut(n, ERR_CUT) : n \in ExcLens}]
  \cup [connect_ms : ConnectMs,
        error_len : {Len("probe-closed"), Len("probe-no-response")}
                    \cup {Len("probe-http:") + n : n \in CodeLens}]

\* _test_single_variation, the tunnel path (2420-2442)
VarNative ==
  /\ q_pc = "init"
  /\ \/ \E c \in ConnectMs, t \in TtfbMs, m \in Speeds :
          q_var' = [q_var EXCEPT !.connect_ms = c, !.alive = TRUE,
                                 !.native_tested = TRUE, !.ttfb_ms = t,
                                 !.speed_mbps = m]
     \/ \E f \in NativeFailures :
          q_var' = [q_var EXCEPT !.connect_ms = f.connect_ms,
                                 !.error_len = ErrOr(f.error_len, Len("no-data"))]
  /\ q_pc' = "var_tested"
  /\ UNCHANGED <<q_res, q_has_speed, nonScores>>

\* _test_single_variation, the proxy path before the speed test: no free
\* port, the config not written, the proxy not started (2448-2474)
VarProxySetupFails ==
  /\ q_pc = "init"
  /\ \E n \in {Len("no-free-port")}
              \cup {Len("write-cfg:") + Cut(e, 30) : e \in ExcLens}
              \cup {ErrOr(Cut(e, START_ERR_CUT), Len("xray-start-fail")) : e \in StderrLens} :
       q_var' = [q_var EXCEPT !.error_len = n]
  /\ q_pc' = "var_tested"
  /\ UNCHANGED <<q_res, q_has_speed, nonScores>>

\* _test_single_variation, the proxy path from the speed test on (2476-2494);
\* after a failed download _read_stderr_file always leaves a text
\* (1478-1510), of which 60 characters are kept
VarProxy ==
  /\ q_pc = "init"
  /\ \/ \E c \in ConnectMs, t \in TtfbMs, m \in Speeds :
          q_var' = [q_var EXCEPT !.connect_ms = c, !.alive = TRUE,
                                 !.ttfb_ms = t, !.speed_mbps = m]
     \/ \E c \in {-1} \cup ConnectMs, e \in StderrLens \ {0} :
          q_var' = [q_var EXCEPT !.connect_ms = c, !.error_len = Cut(e, ERR_CUT)]
  /\ q_pc' = "var_tested"
  /\ UNCHANGED <<q_res, q_has_speed, nonScores>>

\* _xray_calc_scores at the end of the pipeline (3088) or at its
\* cancellation (5216)
XrayCalcScores ==
  /\ q_pc = "var_tested"
  /\ q_var' = [q_var EXCEPT !.score = XrayScore(q_var)]
  /\ q_pc' = "var_scored"
  /\ UNCHANGED <<q_res, q_has_speed, nonScores>>

\* phase1.go for one IP (3559-3575): _lat_one gives the TLS time or an error
\* (3513-3549); with st.interrupted set the Result is left as constructed
GoLatency ==
  /\ q_pc = "init"
  /\ \/ \E tls \in ConnectMs :
          q_res' = [q_res EXCEPT !.tls_ms = tls, !.error_len = 0, !.alive = tls > 0]
     \/ \E n \in {Len("tcp-timeout"), Len("tls-timeout")}
                 \cup {Len("tls:") + Cut(e, 50) : e \in ExcLens} :
          q_res' = [q_res EXCEPT !.tls_ms = -1, !.error_len = n, !.alive = FALSE]
     \/ q_res' = q_res
  /\ q_pc' = "lat_done"
  /\ UNCHANGED <<q_var, q_has_speed, nonScores>>

\* phase2.go for one candidate (3842-3857): a measured speed, or the last
\* error; the candidates are alive Results
GoSpeed ==
  /\ q_pc = "lat_done"
  /\ q_res.alive
  /\ q_res.best_mbps < 0
  /\ \/ \E m \in Speeds, t \in TtfbMs :
          /\ q_res' = [q_res EXCEPT !.best_mbps = m, !.ttfb_ms = t]
          /\ q_has_speed' = TRUE
     \/ \E n \in {0, Len("timeout")} \cup {Len("http:") + c : c \in CodeLens} :
          /\ q_res' = [q_res EXCEPT !.error_len = IF n > 0 THEN n ELSE @]
          /\ q_has_speed' \in BOOLEAN
  /\ UNCHANGED <<q_pc, q_var, nonScores>>

\* calc_scores at the end of the scan, interrupted or not (8242-8290);
\* another Result may hold a speed
CalcScores ==
  /\ q_pc = "lat_done"
  /\ \E others \in BOOLEAN :
       /\ q_has_speed' = (q_has_speed \/ others)
       /\ q_res' = [q_res EXCEPT !.score = ResultScore(q_res, q_has_speed')]
  /\ q_pc' = "res_scored"
  /\ UNCHANGED <<q_var, nonScores>>

QNext ==
  \/ VarNative
  \/ VarProxySetupFails
  \/ VarProxy
  \/ XrayCalcScores
  \/ GoLatency
  \/ GoSpeed
  \/ CalcScores

QInit == ScoresIdle /\ FirstIdle /\ LaterIdle /\ WavesIdle /\ ProxyIdle /\ ProbeIdle /\ MutexIdle /\ ObservedIdle /\ FunnelIdle /\ StripIdle /\ UpgradeIdle /\ PartialIdle /\ PortsIdle /\ ParserIdle /\ FinishIdle
SpecScores == QInit /\ [][QNext]_vars

\* C23: when a scan or a pipeline run has finished, every record of its
\* output is either alive with a score above 0, or dead with score 0 and an
\* error text of 1 to 60 characters.
Explained(r) ==
  \/ r.alive /\ r.score > 0
  \/ ~r.alive /\ r.score = 0 /\ r.error_len \in 1..ERR_CUT
C23_AliveScoredDeadExplained ==
  /\ q_pc = "var_scored" => Explained(q_var)
  /\ q_pc = "res_scored" => Explained(q_res)

\* the first half alone, and on the variations of the pipeline alone
C23_AliveVariationScored ==
  (q_pc = "var_scored" /\ q_var.alive) => q_var.score > 0
C23_DeadResultExplained ==
  (q_pc = "res_scored" /\ ~q_res.alive) => q_res.error_len \in 1..ERR_CUT
C23_VariationErrorShort ==
  q_pc = "var_scored" => q_var.error_len <= ERR_CUT


\* ---------------------------------------------------------------------------
\* Part 13.  The proxy subprocess of one variation: the task of
\* _test_single_variation on the event loop, and xp.start in a thread of the
\* executor.  The two run in parallel: a step of one may fall between any
\* two steps of the other.
\* ---------------------------------------------------------------------------

ProxyEnvironments ==
  [cfg_written : BOOLEAN, err_opened : BOOLEAN, spawned : BOOLEAN,
   downloads : BOOLEAN]

ProxyInit ==
  /\ x_pc = "init"
  /\ x_th = "none"
  /\ x_in \in ProxyEnvironments
  /\ x_proc = FALSE
  /\ x_os = "none"
  /\ x_cfg = FALSE
  /\ x_err = FALSE

Alive(os) == os \in {"starting", "listening"}

\* XrayProcess.stop (1554-1573) and XrayProcess.cleanup (1575-1582), as the
\* 'finally' of _test_single_variation calls them (2495-2497): the process is
\* terminated if xp.proc is set, both files are removed
StopThenCleanup ==
  /\ x_proc' = FALSE
  /\ x_os' = IF x_proc /\ Alive(x_os) THEN "terminated" ELSE x_os
  /\ x_cfg' = FALSE
  /\ x_err' = FALSE

\* the config is written and xp.start handed to the executor (2457-2472); a
\* config that cannot be written is removed and ends the test
ProxyBegin ==
  /\ x_pc = "init"
  /\ IF x_in.cfg_written
     THEN /\ x_cfg' = TRUE
          /\ x_pc' = "starting"
          /\ x_th' = "queued"
     ELSE /\ x_cfg' = FALSE
          /\ x_pc' = "dead"
          /\ x_th' = "none"
  /\ UNCHANGED <<x_in, x_proc, x_os, x_err, nonProxy>>

\* a thread of the pool takes xp.start
StartRuns ==
  /\ x_th = "queued"
  /\ x_th' = "open_err"
  /\ UNCHANGED <<x_pc, x_in, x_proc, x_os, x_cfg, x_err, nonProxy>>

\* os.open of the stderr file (1516): creates it, or start returns False
StartOpensErr ==
  /\ x_th = "open_err"
  /\ IF x_in.err_opened
     THEN x_err' = TRUE /\ x_th' = "popen"
     ELSE x_err' = x_err /\ x_th' = "false"
  /\ UNCHANGED <<x_pc, x_in, x_proc, x_os, x_cfg, nonProxy>>

\* subprocess.Popen (1524-1527): the process exists from here on; a failure
\* makes start return False (1529-1534)
StartSpawns ==
  /\ x_th = "popen"
  /\ IF x_in.spawned
     THEN x_os' = "starting" /\ x_th' = "assign"
     ELSE x_os' = x_os /\ x_th' = "false"
  /\ UNCHANGED <<x_pc, x_in, x_proc, x_cfg, x_err, nonProxy>>

\* 'self.proc = ...' (1524): the result of Popen is stored
StartAssigns ==
  /\ x_th = "assign"
  /\ x_proc' = TRUE
  /\ x_th' = "poll"
  /\ UNCHANGED <<x_pc, x_in, x_os, x_cfg, x_err, nonProxy>>

\* the proxy reads its config and listens, or ends by itself
ProcListens ==
  /\ x_os = "starting"
  /\ x_cfg
  /\ x_os' = "listening"
  /\ UNCHANGED <<x_pc, x_th, x_in, x_proc, x_cfg, x_err, nonProxy>>
ProcExits ==
  /\ Alive(x_os)
  /\ x_os' = "exited"
  /\ UNCHANGED <<x_pc, x_th, x_in, x_proc, x_cfg, x_err, nonProxy>>

\* the loop of start (1536-1552): xp.proc emptied by a stop on the event
\* loop makes 'self.proc.poll()' raise; an ended process gives False; a
\* port that answers gives True; at the deadline start stops the process
\* itself and gives False
StartPolls ==
  /\ x_th = "poll"
  /\ \/ /\ ~x_proc
        /\ x_th' = "raised"
        /\ UNCHANGED <<x_proc, x_os>>
     \/ /\ x_proc
        /\ ~Alive(x_os)
        /\ x_th' = "false"
        /\ UNCHANGED <<x_proc, x_os>>
     \/ /\ x_proc
        /\ x_os = "listening"
        /\ x_th' = "true"
        /\ UNCHANGED <<x_proc, x_os>>
     \/ /\ x_proc
        /\ x_os = "starting"
        /\ x_th' = "false"
        /\ x_proc' = FALSE
        /\ x_os' = "terminated"
  /\ UNCHANGED <<x_pc, x_in, x_cfg, x_err, nonProxy>>

\* 'await loop.run_in_executor(None, xp.start)' returns (2472-2474): False
\* ends the test through the 'finally', True goes on to the speed test
StartReturned ==
  /\ x_pc = "starting"
  /\ x_th \in {"true", "false"}
  /\ IF x_th = "true"
     THEN x_pc' = "speed" /\ UNCHANGED <<x_proc, x_os, x_cfg, x_err>>
     ELSE x_pc' = "dead" /\ StopThenCleanup
  /\ UNCHANGED <<x_th, x_in, nonProxy>>

\* xray_speed_test returns (2476-2497): alive with a download, or dead after
\* a stop; the 'finally' runs in both cases
SpeedReturned ==
  /\ x_pc = "speed"
  /\ x_pc' = IF x_in.downloads THEN "alive" ELSE "dead"
  /\ StopThenCleanup
  /\ UNCHANGED <<x_th, x_in, nonProxy>>

\* the task is cancelled at one of its two awaits: the 'finally' runs at
\* once.  A call of xp.start that no thread has taken yet is dropped with
\* the future; one that runs goes on.
ProxyCancelled ==
  /\ x_pc \in {"starting", "speed"}
  /\ x_pc' = "cancelled"
  /\ x_th' = IF x_th = "queued" THEN "dropped" ELSE x_th
  /\ StopThenCleanup
  /\ UNCHANGED <<x_in, nonProxy>>

XNext ==
  \/ ProxyBegin
  \/ StartRuns
  \/ StartOpensErr
  \/ StartSpawns
  \/ StartAssigns
  \/ ProcListens
  \/ ProcExits
  \/ StartPolls
  \/ StartReturned
  \/ SpeedReturned
  \/ ProxyCancelled

XInit == ProxyInit /\ FirstIdle /\ LaterIdle /\ WavesIdle /\ ScoresIdle /\ ProbeIdle /\ MutexIdle /\ ObservedIdle /\ FunnelIdle /\ StripIdle /\ UpgradeIdle /\ PartialIdle /\ PortsIdle /\ ParserIdle /\ FinishIdle
SpecProxy == XInit /\ [][XNext]_vars

\* C24: once the test of a variation has returned or was cancelled, its
\* subprocess is not running and its config and stderr files are gone, on
\* every path, a cancellation during xp.start included.
TestOver == x_pc \in {"alive", "dead", "cancelled"}
TornDown == ~Alive(x_os) /\ ~x_cfg /\ ~x_err
C24_TornDownOnEveryPath == TestOver => TornDown

\* the same for the tests that return
C24_TornDownWhenReturned == x_pc \in {"alive", "dead"} => TornDown
\* the subprocess alone
C24_NoProcessLeft == TestOver => ~Alive(x_os)
\* a subprocess that nothing will stop: start has returned True to a
\* cancelled task
C24_NoProcessForGood == ~(x_pc = "cancelled" /\ x_th = "true" /\ Alive(x_os))


\* ---------------------------------------------------------------------------
\* Part 14.  _tls_probe (3243-3302): the TLS handshake, the optional header
\* validation, the close.
\*
\* The program runs on Python 3.8 and later (line 15).  asyncio.TimeoutError
\* is the builtin TimeoutError, a subclass of OSError, from Python 3.11 on;
\* before, it is a class of its own that 'except OSError' does not catch.
\* ---------------------------------------------------------------------------

\* the handshake: completed after some milliseconds, timed out, or failed
\* with an OSError
Handshakes == {"done", "timeout", "oserror"}
\* the validation: the write or the read is reset, the read times out, the
\* read is empty, the header names no provider, names it, names it with a
\* status of 400 or more
Validations == {"reset", "read_timeout", "empty", "no_marker", "marker",
                "marker_4xx"}

TlsProbeInputs ==
  [validate : BOOLEAN, handshake : Handshakes, tls_ms : 1..MaxMs,
   validation : Validations, timeout_is_oserror : BOOLEAN]

TlsProbeInit ==
  /\ b_pc = "init"
  /\ b_in \in TlsProbeInputs
  /\ b_hs = FALSE
  /\ b_loc = NoLocals
  /\ b_out = NoOutput

\* the two handlers of the function (3290-3293)
OnTimeoutError == [latency_ms |-> -1, is_cf |-> FALSE, error |-> "timeout"]
OnOSError == [latency_ms |-> -1, is_cf |-> FALSE, error |-> "oserror"]

\* the header text as read (3271-3273)
HeaderText(validation) ==
  CASE validation = "empty" -> ""
    [] validation = "no_marker" -> "http 200"
    [] validation = "marker" -> "http 200 server: cloudflare"
    [] validation = "marker_4xx" -> "http 403 server: cloudflare"
    [] OTHER -> ""
HasMarker(htxt) == htxt \in {"http 200 server: cloudflare", "http 403 server: cloudflare"}
\* 'cf-origin-<code>' for a status of 400 or more (3277-3283)
OriginError(htxt) == IF htxt = "http 403 server: cloudflare" THEN "cf-origin-403" ELSE ""

\* What 'except OSError: pass' around the validation catches (3274): an
\* OSError always, the timeout of wait_for only where it is an OSError.
InnerCatches(in) ==
  in.validation = "reset" \/ (in.validation = "read_timeout" /\ in.timeout_is_oserror)

\* the call, up to the await of open_connection (3250-3258)
TlsProbeBegin ==
  /\ b_pc = "init"
  /\ b_pc' = "handshake"
  /\ UNCHANGED <<b_in, b_hs, b_loc, b_out, nonProbe>>

\* open_connection returns or raises (3255-3259, 3290-3293)
TlsProbeHandshake ==
  /\ b_pc = "handshake"
  /\ CASE b_in.handshake = "done" ->
            /\ b_hs' = TRUE
            /\ b_loc' = [b_loc EXCEPT !.tls_ms = b_in.tls_ms, !.is_cf = TRUE]
            /\ b_pc' = IF b_in.validate THEN "validate" ELSE "close"
            /\ b_out' = b_out
       [] b_in.handshake = "timeout" ->
            /\ b_out' = OnTimeoutError
            /\ b_pc' = "returned"
            /\ UNCHANGED <<b_hs, b_loc>>
       [] OTHER ->
            /\ b_out' = OnOSError
            /\ b_pc' = "returned"
            /\ UNCHANGED <<b_hs, b_loc>>
  /\ UNCHANGED <<b_in, nonProbe>>

\* the validation (3263-3275): is_cf starts False; the request is written,
\* the header is read under wait_for; an exception the inner handler does
\* not catch leaves through the handlers of the function
TlsProbeValidate ==
  /\ b_pc = "validate"
  /\ IF b_in.validation \in {"reset", "read_timeout"}
     THEN IF InnerCatches(b_in)
          THEN /\ b_loc' = [b_loc EXCEPT !.is_cf = FALSE]
               /\ b_pc' = "close"
               /\ b_out' = b_out
          ELSE /\ b_out' = OnTimeoutError
               /\ b_pc' = "returned"
               /\ b_loc' = [b_loc EXCEPT !.is_cf = FALSE]
     ELSE /\ b_loc' = [b_loc EXCEPT !.htxt = HeaderText(b_in.validation),
                                    !.is_cf = HasMarker(HeaderText(b_in.validation))]
          /\ b_pc' = "close"
          /\ b_out' = b_out
  /\ UNCHANGED <<b_in, b_hs, nonProbe>>

\* the status of a provider's answer, the close, the return (3277-3289); an
\* OSError of wait_closed is passed over
TlsProbeClose ==
  /\ b_pc = "close"
  /\ b_out' = [latency_ms |-> b_loc.tls_ms, is_cf |-> b_loc.is_cf,
               error |-> IF b_loc.is_cf THEN OriginError(b_loc.htxt) ELSE ""]
  /\ b_loc' = [b_loc EXCEPT !.cf_err = b_out'.error]
  /\ b_pc' = "returned"
  /\ UNCHANGED <<b_in, b_hs, nonProbe>>

ONext ==
  \/ TlsProbeBegin
  \/ TlsProbeHandshake
  \/ TlsProbeValidate
  \/ TlsProbeClose

OInit == TlsProbeInit /\ FirstIdle /\ LaterIdle /\ WavesIdle /\ ScoresIdle /\ ProxyIdle /\ MutexIdle /\ ObservedIdle /\ FunnelIdle /\ StripIdle /\ UpgradeIdle /\ PartialIdle /\ PortsIdle /\ ParserIdle /\ FinishIdle
SpecProbe == OInit /\ [][ONext]_vars

\* C25: _tls_probe returns a latency of 0 or more exactly when the TLS
\* handshake completed, whatever the validation step does afterwards.
C25_LatencyIffHandshake ==
  b_pc = "returned" => (b_out.latency_ms >= 0 <=> b_hs)

\* the same where asyncio.TimeoutError is an OSError (Python 3.11 on)
C25_LatencyIffHandshakeNewPython ==
  (b_pc = "returned" /\ b_in.timeout_is_oserror) => (b_out.latency_ms >= 0 <=> b_hs)

\* ---------------------------------------------------------------------------
\* Part 15.  The lock of CFRateLimiter: who holds it at each access to
\* count, window_start and blocked_until.  A coroutine runs from one await
\* to the next without another one in between; the values of the fields are
\* those of Part 1, here every branch of the code is open.
\* ---------------------------------------------------------------------------

MutexInit ==
  /\ m_lock = 0
  /\ m_pc = [p \in Procs |-> "idle"]
  /\ m_acc = {}

\* the accesses of a place of the code, by a coroutine that holds the lock
\* or does not
Reads(site, fields, held) ==
  {[site |-> site, field |-> f, write |-> FALSE, locked |-> held] : f \in fields}
Writes(site, fields, held) ==
  {[site |-> site, field |-> f, write |-> TRUE, locked |-> held] : f \in fields}

\* the test at the entry of acquire (767) and the loop test of
\* _wait_blocked (746, 749)
EntryAccesses(p) == Reads("acquire_entry", {"blocked_until"}, m_lock = p)
WaitBlockedAccesses(p) == Reads("_wait_blocked", {"blocked_until"}, m_lock = p)
\* the label of _wait_budget shows self.count (761)
WaitBudgetAccesses(p) == Reads("_wait_budget", {"count"}, m_lock = p)

\* acquire between 'await self._lock.acquire()' and the budget test
\* (772-787), by the holder h
RecheckAccesses(h, expired) ==
  Reads("acquire", {"blocked_until", "window_start", "count"}, h)
  \cup (IF expired
        THEN Writes("acquire", {"count", "window_start", "blocked_until"}, h)
        ELSE Writes("acquire", {"window_start"}, h))
\* 799-806: the reset after the wait and 'self.count += 1'
CountAccesses(h) ==
  Reads("acquire", {"window_start", "count"}, h)
  \cup Writes("acquire", {"count", "window_start"}, h)

\* 'self._lock.release()' before the budget wait (794): the lock is free
\* while the coroutine waits
LockKeptForBudgetWait(p) == p
LockForBudgetWait(p) == 0

\* acquire from its lock to its next await or its return (772-808): with
\* the budget used up the coroutine releases the lock and waits, else it
\* counts its request and releases the lock
LockedSection(p, before) ==
  /\ m_lock = 0
  /\ \E expired \in BOOLEAN, exhausted \in BOOLEAN :
       IF exhausted
       THEN /\ m_acc' = m_acc \cup before \cup RecheckAccesses(TRUE, expired)
            /\ m_lock' = LockForBudgetWait(p)
            /\ m_pc' = [m_pc EXCEPT ![p] = "wait_budget"]
       ELSE /\ m_acc' = m_acc \cup before \cup RecheckAccesses(TRUE, expired)
                        \cup CountAccesses(TRUE)
            /\ m_lock' = 0
            /\ m_pc' = [m_pc EXCEPT ![p] = "idle"]

\* acquire called (764-771)
MutexAcquire(p) ==
  /\ m_pc[p] = "idle"
  /\ \/ /\ m_pc' = [m_pc EXCEPT ![p] = "wait_blocked"]
        /\ m_acc' = m_acc \cup EntryAccesses(p) \cup WaitBlockedAccesses(p)
        /\ m_lock' = m_lock
     \/ LockedSection(p, EntryAccesses(p))
  /\ UNCHANGED nonMutex

\* the sleep of _wait_blocked returns (746-752) and the block is over
MutexWakeBlocked(p) ==
  /\ m_pc[p] = "wait_blocked"
  /\ LockedSection(p, WaitBlockedAccesses(p))
  /\ UNCHANGED nonMutex

\* the sleep of _wait_budget returns (756-762) at the end of the window; the
\* lock is taken again (797), the request counted, the lock released
MutexWakeBudget(p) ==
  /\ m_pc[p] = "wait_budget"
  /\ m_lock = 0
  /\ m_acc' = m_acc \cup WaitBudgetAccesses(p) \cup CountAccesses(TRUE)
  /\ m_lock' = 0
  /\ m_pc' = [m_pc EXCEPT ![p] = "idle"]
  /\ UNCHANGED nonMutex

\* would_block (810-818) and report_429 (820-828), called by a download
\* coroutine outside acquire (3801, 3832): neither takes the lock
MutexWouldBlock(p) ==
  /\ m_pc[p] = "idle"
  /\ m_acc' = m_acc \cup Reads("would_block",
                               {"blocked_until", "window_start", "count"},
                               m_lock = p)
  /\ UNCHANGED <<m_lock, m_pc, nonMutex>>
MutexReport429(p) ==
  /\ m_pc[p] = "idle"
  /\ m_acc' = m_acc \cup Reads("report_429", {"blocked_until"}, m_lock = p)
                    \cup Writes("report_429", {"blocked_until"}, m_lock = p)
  /\ UNCHANGED <<m_lock, m_pc, nonMutex>>

MNext ==
  \/ \E p \in Procs : MutexAcquire(p)
  \/ \E p \in Procs : MutexWakeBlocked(p)
  \/ \E p \in Procs : MutexWakeBudget(p)
  \/ \E p \in Procs : MutexWouldBlock(p)
  \/ \E p \in Procs : MutexReport429(p)

MInit == MutexInit /\ FirstIdle /\ LaterIdle /\ WavesIdle /\ ScoresIdle /\ ProxyIdle /\ ProbeIdle /\ ObservedIdle /\ FunnelIdle /\ StripIdle /\ UpgradeIdle /\ PartialIdle /\ PortsIdle /\ ParserIdle /\ FinishIdle
SpecMutex == MInit /\ [][MNext]_vars

Waiting(p) == m_pc[p] \in {"wait_blocked", "wait_budget"}

\* C27 as stated: every read and write of count, window_start and
\* blocked_until is made by a coroutine that holds the mutex, and no
\* coroutine holds the mutex while it waits.
C27_EveryAccessUnderMutex ==
  /\ \A a \in m_acc : a.locked
  /\ \A p \in Procs : Waiting(p) => m_lock # p

\* C27: every write of count and window_start, and every access made by
\* acquire after it took the mutex, is made by the holder of the mutex;
\* blocked_until is read and written without it by report_429 and read
\* without it by would_block, by the entry test of acquire and by
\* _wait_blocked, and count is read without it by _wait_budget; no coroutine
\* holds the mutex while it waits, so the mutex is free during any wait.
Unlocked ==
  Reads("would_block", {"blocked_until", "window_start", "count"}, FALSE)
  \cup Reads("report_429", {"blocked_until"}, FALSE)
  \cup Writes("report_429", {"blocked_until"}, FALSE)
  \cup Reads("acquire_entry", {"blocked_until"}, FALSE)
  \cup Reads("_wait_blocked", {"blocked_until"}, FALSE)
  \cup Reads("_wait_budget", {"count"}, FALSE)
C27_WritesOfWindowUnderMutex ==
  /\ \A a \in m_acc : (a.write /\ a.field \in {"count", "window_start"}) => a.locked
  /\ \A a \in m_acc : a.locked \/ a \in Unlocked
  /\ \A p \in Procs : Waiting(p) => m_lock = 0

\* one coroutine waits for the window, another for the block, a third has
\* reported a 429 and checked would_block, and a request was counted
C27_Witness ==
  /\ \E p, q \in Procs : m_pc[p] = "wait_budget" /\ m_pc[q] = "wait_blocked"
  /\ Unlocked \subseteq m_acc
  /\ CountAccesses(TRUE) \subseteq m_acc
  /\ m_lock = 0

\* ---------------------------------------------------------------------------
\* Part 16.  The writes of _test_single_variation to its variation, as the
\* other tasks of the event loop can see them.  A task runs from one await
\* to the next; the dashboard task (_pipeline_refresh, 5191-5197) and the
\* other tests run only while this task is suspended.
\* ---------------------------------------------------------------------------

\* what _vless_ws_speed_test (2017-2026) or xray_speed_test (1697-1702)
\* returns: a download, or an error with or without a connect time
SpeedTestReturns ==
  [path : {"native", "proxy"}, connect_ms : ConnectMs, ttfb_ms : TtfbMs,
   mbps : Speeds, error_len : {0}]
  \cup [path : {"native", "proxy"}, connect_ms : {-1} \cup ConnectMs,
        ttfb_ms : {-1}, mbps : {0}, error_len : {Len("timeout")}]

ObservedInit ==
  /\ o_pc = "init"
  /\ o_in \in SpeedTestReturns
  /\ o_var = UnscoredVariation
  /\ o_wi = 0
  /\ o_seen = {}

\* the assignments that follow the await, in the order of the code: the
\* tunnel path (2431-2442) and the proxy path (2479-2494)
WritesAfterTest(in) ==
  IF in.mbps > 0
  THEN IF in.path = "native"
       THEN << <<"connect_ms", in.connect_ms>>, <<"alive", TRUE>>,
               <<"native_tested", TRUE>>, <<"ttfb_ms", in.ttfb_ms>>,
               <<"speed_mbps", in.mbps>> >>
       ELSE << <<"connect_ms", in.connect_ms>>, <<"alive", TRUE>>,
               <<"ttfb_ms", in.ttfb_ms>>, <<"speed_mbps", in.mbps>> >>
  ELSE << <<"connect_ms", in.connect_ms>>, <<"error_len", in.error_len>> >>

\* the awaits among these assignments, as the number of assignments made
\* before each: there is none (the xp.stop() of 2488 blocks without
\* suspending)
AwaitAfterAlive(in) == {2}
AwaitsAmongWrites(in) == {}

RECURSIVE WriteAll(_, _, _, _)
WriteAll(var, ws, from, to) ==
  IF from > to THEN var
  ELSE WriteAll([var EXCEPT ![ws[from][1]] = ws[from][2]], ws, from + 1, to)

\* the task is created and runs to the await of the speed test
ObservedBegin ==
  /\ o_pc = "init"
  /\ o_pc' = "awaiting"
  /\ UNCHANGED <<o_in, o_var, o_wi, o_seen, nonObserved>>

\* the task runs on, from the return of an await to the next await or to
\* its return, making the assignments in between
ObservedRuns ==
  /\ o_pc \in {"awaiting", "writing"}
  /\ LET ws == WritesAfterTest(o_in)
         stops == {k \in AwaitsAmongWrites(o_in) : k > o_wi /\ k < Len(ws)}
         to == IF stops = {} THEN Len(ws)
               ELSE CHOOSE k \in stops : \A j \in stops : k <= j
     IN  /\ o_var' = WriteAll(o_var, ws, o_wi + 1, to)
         /\ o_wi' = to
         /\ o_pc' = IF to = Len(ws) THEN "done" ELSE "writing"
  /\ UNCHANGED <<o_in, o_seen, nonObserved>>

\* another task runs: the dashboard draws the variation (XrayDashboard.draw)
ObservedRead ==
  /\ o_seen' = o_seen \cup {[var |-> o_var, writes |-> o_wi]}
  /\ UNCHANGED <<o_pc, o_in, o_var, o_wi, nonObserved>>

VNext ==
  \/ ObservedBegin
  \/ ObservedRuns
  \/ ObservedRead

VInit == ObservedInit /\ FirstIdle /\ LaterIdle /\ WavesIdle /\ ScoresIdle /\ ProxyIdle /\ ProbeIdle /\ MutexIdle /\ FunnelIdle /\ StripIdle /\ UpgradeIdle /\ PartialIdle /\ PortsIdle /\ ParserIdle /\ FinishIdle
SpecObserved == VInit /\ [][VNext]_vars

\* C30: no other task ever sees the variation alive with ttfb_ms or
\* speed_mbps at its initial value: the task that tested it makes all its
\* writes, from connect_ms to the last, without a suspension in between, so
\* a reader sees none of them or all of them.
C30_MetricsSeenWhole ==
  \A s \in o_seen :
    /\ s.var.alive =>
         /\ s.var.ttfb_ms # UnscoredVariation.ttfb_ms
         /\ s.var.speed_mbps # UnscoredVariation.speed_mbps
    /\ s.writes \in {0, Len(WritesAfterTest(o_in))}

\* the dashboard has drawn the variation before its test returned and
\* after: first untouched, then alive with its three metrics
C30_Witness ==
  /\ o_pc = "done"
  /\ o_in.path = "native"
  /\ [var |-> UnscoredVariation, writes |-> 0] \in o_seen
  /\ \E s \in o_seen : s.var.alive /\ s.var.connect_ms > 1 /\ s.writes = 5

\* ===================================================================
\* Part 17: the worker of a funnel round, phase2_round.go
\* (lines 3784-3857), with the rate limiter of part 1
\* ===================================================================

SPEED_HOST == "speed.cloudflare.com"        \* line 63
CDN_FALLBACK == "cloudflaremirrors.com"     \* line 73, its host
\* line 73: the tuple is not empty, so `and CDN_FALLBACK` is true
HasFallback == CDN_FALLBACK # ""

\* what _dl_one returns (lines 3588-3759): a speed, or an error text.  A
\* 429 carries the text of the Retry-After header (lines 3672-3679)
RetryAfterTexts == {"45", "", "Wed, 21 Oct 2026 07:28:00 GMT"}
HttpErrors == {"http:HTTP/1.1 403 Forbidden"}
DlOutcomes ==
  {[mbps |-> 5, err |-> ""], [mbps |-> 0, err |-> "timeout"]}
  \cup {[mbps |-> 0, err |-> e] : e \in HttpErrors}
  \cup {[mbps |-> 0, err |-> "429", ra_str |-> t] : t \in RetryAfterTexts}

\* int(ra_str), lines 3828-3831: the texts that int() accepts, with its value
IntOfText == [t \in {"45"} |-> 45]
RetryAfterOf(ra_str) ==
  IF ra_str \in DOMAIN IntOfText THEN IntOfText[ra_str] ELSE 60

\* line 3797, rlim.would_block() as go calls it
FunnelWouldBlockNever == FALSE
FunnelWouldBlock == WouldBlockValue

\* always the primary endpoint: the choice of lines 3796-3801 left out
UseHostPrimary(p) == SPEED_HOST

\* lines 3794-3801: the endpoint of the attempt
UseHost(p) ==
  IF k_force[p] /\ HasFallback THEN CDN_FALLBACK
  ELSE IF FunnelWouldBlock /\ HasFallback THEN CDN_FALLBACK
  ELSE SPEED_HOST

\* lines 3826 and 3836: the errors that set force_cdn
ForcesCdn(out, host) ==
  /\ host = SPEED_HOST
  /\ out.err = "429" \/ out.err \in HttpErrors

\* lines 3842-3857: the writes after the loop
FunnelWrites(p, best, lerr, early) ==
  /\ k_res' = [k_res EXCEPT ![p] =
       [speeds |-> Append(@.speeds, best),
        best_mbps |-> IF best > 0 /\ best > @.best_mbps THEN best
                      ELSE @.best_mbps,
        error |-> IF best > 0 THEN @.error
                  ELSE IF lerr # "" THEN lerr ELSE @.error]]
  /\ k_done_count' = k_done_count + 1
  /\ k_pc' = [k_pc EXCEPT ![p] = "done"]
  /\ k_seen' = [k_seen EXCEPT ![p].early = early]

\* the fields of the limiter that acquire sets
AcquireFields ==
  <<count, window_start, blocked_until, pc, due, wait_until, saved_window,
    ev, roll_reset>>

\* line 3803, rlim.acquire(st) called by worker p (lines 764-771)
RlimAcquire(p) ==
  IF blocked_until > 0 /\ now < blocked_until /\ ~interrupted
  THEN /\ pc' = [pc EXCEPT ![p] = "wait_blocked"]
       /\ due' = [due EXCEPT ![p] = FALSE]
       /\ ev' = [op |-> "wait", proc |-> p]
       /\ UNCHANGED <<count, window_start, blocked_until, wait_until,
                      saved_window, roll_reset>>
  ELSE Locked(p)

\* no worker is running: a worker runs from one suspension to the next
\* without any other step in between
Settled == \A q \in Goers : k_pc[q] # "next"

\* lines 3784-3813: the top of the loop, up to the next suspension
FunnelTop(p) ==
  /\ UNCHANGED nonFunnel
  /\ k_pc[p] = "next" \/ (k_pc[p] = "loop" /\ Settled)
  /\ UNCHANGED <<now, interrupted, nshort, ncalls, nreports>>
  /\ UNCHANGED <<k_att, k_force, k_best, k_last_err, k_outs, k_rep>>
  /\ IF interrupted
     THEN \* line 3786
          /\ FunnelWrites(p, k_best[p], k_last_err[p], TRUE)
          /\ UNCHANGED AcquireFields
          /\ UNCHANGED <<k_sem, k_hosts>>
     ELSE LET host == UseHost(p) IN
          /\ k_hosts' = [k_hosts EXCEPT ![p] = Append(@, host)]
          /\ IF host = SPEED_HOST
             THEN RlimAcquire(p)
             ELSE UNCHANGED AcquireFields
          /\ IF pc'[p] # "idle"
             THEN \* suspended inside the limiter
                  /\ k_pc' = [k_pc EXCEPT ![p] = "rlim"]
                  /\ k_sem' = k_sem
             ELSE IF k_sem > 0
             THEN \* sem.acquire() returns at once, line 3806
                  /\ k_pc' = [k_pc EXCEPT ![p] = "dl"]
                  /\ k_sem' = k_sem - 1
             ELSE /\ k_pc' = [k_pc EXCEPT ![p] = "sem"]
                  /\ k_sem' = k_sem
          /\ k_seen' = [k_seen EXCEPT ![p].wb =
               IF host = SPEED_HOST THEN Append(@, WouldBlockValue) ELSE @]
          /\ UNCHANGED <<k_res, k_done_count>>

\* lines 3806-3813: sem.acquire() returns for a suspended worker
FunnelSem(p) ==
  /\ UNCHANGED nonFunnel
  /\ UNCHANGED lvars
  /\ Settled
  /\ k_pc[p] = "sem"
  /\ k_sem > 0
  /\ UNCHANGED <<k_att, k_force, k_best, k_last_err, k_hosts, k_outs, k_rep>>
  /\ IF interrupted
     THEN \* line 3808, then sem.release() of line 3813
          /\ FunnelWrites(p, k_best[p], k_last_err[p], TRUE)
          /\ k_sem' = k_sem
     ELSE /\ k_pc' = [k_pc EXCEPT ![p] = "dl"]
          /\ k_sem' = k_sem - 1
          /\ UNCHANGED <<k_res, k_done_count, k_seen>>

\* lines 3810-3857: _dl_one returns `out`
FunnelDownloaded(p, out) ==
  LET host == k_hosts[p][Len(k_hosts[p])]
      is429 == out.err = "429" /\ host = SPEED_HOST
      ra == RetryAfterOf(out.ra_str)
      att == k_att[p] + 1
  IN
  /\ UNCHANGED nonFunnel
  /\ Settled
  /\ k_pc[p] = "dl"
  /\ k_sem' = k_sem + 1
  /\ k_outs' = [k_outs EXCEPT ![p] = Append(@, out)]
  /\ UNCHANGED k_hosts
  /\ UNCHANGED <<count, window_start, now, interrupted, pc, due, wait_until,
                 saved_window, nshort, ncalls, nreports, roll_reset>>
  /\ IF out.mbps > 0
     THEN \* lines 3815-3819
          /\ k_best' = [k_best EXCEPT ![p] = out.mbps]
          /\ FunnelWrites(p, out.mbps, k_last_err[p], FALSE)
          /\ UNCHANGED <<blocked_until, ev, k_att, k_force, k_last_err, k_rep>>
     ELSE /\ IF is429
             THEN \* lines 3826-3833
                  /\ blocked_until' = NewBlocked(ra)
                  /\ ev' = [op |-> "report_429", ra |-> ra,
                            prev |-> blocked_until]
                  /\ k_rep' = [k_rep EXCEPT ![p] = Append(@, ra)]
             ELSE UNCHANGED <<blocked_until, ev, k_rep>>
          /\ k_force' = [k_force EXCEPT ![p] = @ \/ ForcesCdn(out, host)]
          /\ k_last_err' = [k_last_err EXCEPT ![p] = out.err]
          /\ k_att' = [k_att EXCEPT ![p] = att]
          /\ UNCHANGED k_best
          /\ IF att < MAX_RETRIES
             THEN \* line 3784: the next attempt, with no suspension before
                  /\ k_pc' = [k_pc EXCEPT ![p] = "next"]
                  /\ UNCHANGED <<k_res, k_done_count, k_seen>>
             ELSE FunnelWrites(p, k_best[p], out.err, FALSE)

\* phase 2 of run_scan (lines 8258-8290) starts a round: the limiter has
\* counted the requests of the earlier rounds, one short of the budget (a
\* limiter whose count was reset behaves as a new one); sem has `workers`
\* slots (line 3780)
FunnelInit ==
  /\ k_pc = [p \in Goers |-> "loop"]
  /\ k_att = [p \in Goers |-> 0]
  /\ k_force = [p \in Goers |-> FALSE]
  /\ k_best = [p \in Goers |-> 0]
  /\ k_last_err = [p \in Goers |-> ""]
  /\ k_sem \in 1..MaxGo
  /\ k_res = [p \in Goers |-> AliveResult]
  /\ k_done_count = 0
  /\ k_hosts = [p \in Goers |-> <<>>]
  /\ k_outs = [p \in Goers |-> <<>>]
  /\ k_rep = [p \in Goers |-> <<>>]
  /\ k_seen = [p \in Goers |-> [wb |-> <<>>, early |-> FALSE]]

FunnelFirst ==
  LNearBudget /\ LRest /\ ScanIdle /\ GenIdle /\ TestIdle /\ ExpandIdle

KInit == FunnelInit /\ FunnelFirst /\ LaterIdle /\ WavesIdle /\ ScoresIdle /\ ProxyIdle /\ ProbeIdle /\ MutexIdle /\ ObservedIdle /\ StripIdle /\ UpgradeIdle /\ PartialIdle /\ PortsIdle /\ ParserIdle /\ FinishIdle

\* the gather of line 3860 has not returned
RoundRunning == \E p \in Goers : k_pc[p] # "done"

\* during the round the clock advances to the next instant at which a
\* comparison of the limiter changes its value
FunnelTick == RoundRunning /\ Settled /\ Tick /\ now' \in Deadlines

\* Ctrl+C during the round
FunnelInterrupt == RoundRunning /\ Settled /\ Interrupt

KNext ==
  \/ \E p \in Goers : FunnelTop(p)
  \/ \E p \in Goers : FunnelSem(p)
  \/ \E p \in Goers : \E out \in DlOutcomes : FunnelDownloaded(p, out)
  \/ FunnelTick
  \/ FunnelInterrupt

SpecFunnel == KInit /\ [][KNext]_vars

\* the attempts of worker p that the primary endpoint answered with 429
Rated(p) ==
  {i \in 1..Len(k_outs[p]) :
     k_outs[p][i].err = "429" /\ k_hosts[p][i] = SPEED_HOST}

\* the value that a Retry-After text stands for: 60 when the header is
\* missing or is not an integer
RetryAfterMeant(t) == IF t = "45" THEN 45 ELSE 60

\* C31: in a funnel round a candidate makes at most 2 download attempts;
\* every 429 answer of the primary endpoint is reported to the limiter with
\* its Retry-After value, 60 when the header is missing or not an integer;
\* and the attempt that follows it, if any, goes to the fallback endpoint.
C31_TwoAttempts429ToFallback ==
  \A p \in Goers :
    /\ Len(k_hosts[p]) <= 2
    /\ Len(k_outs[p]) <= Len(k_hosts[p])
    /\ Len(k_rep[p]) = Cardinality(Rated(p))
    /\ \A i \in Rated(p) :
         /\ k_rep[p][Cardinality({j \in Rated(p) : j <= i})]
              = RetryAfterMeant(k_outs[p][i].ra_str)
         /\ i + 1 <= Len(k_hosts[p]) => k_hosts[p][i + 1] = CDN_FALLBACK

\* a worker whose first attempt got a 429 without a usable Retry-After from
\* the primary endpoint has made its second attempt
C31_Witness ==
  \E p \in Goers :
    /\ Len(k_outs[p]) = 2
    /\ 1 \in Rated(p)
    /\ k_outs[p][1].ra_str # "45"
    /\ k_rep[p] = <<60>>
    /\ k_hosts[p] = <<SPEED_HOST, CDN_FALLBACK>>

\* a worker whose 429 carried an integer Retry-After has reported it
C31_WitnessInteger ==
  \E p \in Goers : 1 \in Rated(p) /\ k_rep[p] = <<45>>

\* C37: in a funnel round no worker ever waits inside the rate limiter: a
\* worker calls acquire only when would_block() is false, every such call
\* returns without the 429-block wait and without the budget wait, and a
\* worker that sees would_block() true takes the fallback endpoint and
\* leaves count as it is.
C37_NoWaitInsideLimiter ==
  /\ [](\A p \in Goers :
          /\ pc[p] = "idle"
          /\ k_pc[p] # "rlim"
          /\ \A i \in 1..Len(k_seen[p].wb) : ~k_seen[p].wb[i])
  /\ [][\A p \in Goers :
          (Len(k_hosts'[p]) = Len(k_hosts[p]) + 1 /\ WouldBlockValue)
          => /\ k_hosts'[p][Len(k_hosts'[p])] = CDN_FALLBACK
             /\ count' = count]_vars

\* the budget is used up inside its window, no 429 was reported, one worker
\* has acquired and another has taken the fallback endpoint on its first
\* attempt
C37_Witness ==
  /\ count = BUDGET
  /\ now - window_start < WINDOW
  /\ \A p \in Goers : k_rep[p] = <<>> /\ ~k_force[p]
  /\ \E p, q \in Goers :
       /\ Len(k_hosts[p]) >= 1
       /\ k_hosts[p][1] = SPEED_HOST /\ k_seen[p].wb = <<FALSE>>
       /\ k_hosts[q] = <<CDN_FALLBACK>>

\* a worker acquires after the block of a 429 and the window have run out
C37_WitnessAfterBlock ==
  \E p, q \in Goers :
    /\ k_rep[q] # <<>>
    /\ blocked_until = 0
    /\ Len(k_seen[p].wb) >= 1
    /\ ev = [op |-> "acquired", proc |-> p, waited |-> FALSE]

\* C34: a worker that leaves its loop because the interrupt flag is set
\* writes nothing to the result of its candidate (no speed entry, no error,
\* no metric) and does not count it as done.
C34_EarlyReturnWritesNothing ==
  /\ \A p \in Goers : k_seen[p].early => k_res[p] = AliveResult
  /\ k_done_count = Cardinality({p \in Goers : k_pc[p] = "done" /\ ~k_seen[p].early})

\* the other half of C34, which phase2_round.go keeps: once the flag is set
\* no worker enters _dl_one
C34_NoDownloadAfterFlag ==
  [][\A p \in Goers :
       (interrupted /\ k_pc[p] # "dl") => k_pc'[p] # "dl"]_vars

\* a worker has left at the check of line 3785 or 3808 after a failed
\* attempt
C34_WitnessEarly ==
  \E p \in Goers : k_seen[p].early /\ k_last_err[p] # "" /\ k_pc[p] = "done"

\* ===================================================================
\* Part 18: _vless_ws_read_tunnel (lines 1827-1878) on a tunnel stream
\* that the server cuts into frames
\* ===================================================================

\* what the server writes into the tunnel: the VLESS response header (0,
\* addon_len, the addons) and the HTTP response; the last begins with a
\* byte that is not 0
TunnelStreams ==
  { <<0, 0, S200, HEnd>>, <<0, 2, 7, 9, S200, HEnd>>, <<1, 0, S200, HEnd>> }

\* the pieces of s between the cuts (a cut at i separates s[i] and s[i+1])
Pieces(s, cuts) ==
  LET ends == cuts \cup {Len(s)}
      start(e) == IF \E c \in cuts : c < e
                  THEN 1 + CHOOSE c \in cuts :
                             c < e /\ \A d \in cuts : d < e => d <= c
                  ELSE 1
      nth(k) == CHOOSE e \in ends : Cardinality({d \in ends : d <= e}) = k
  IN  [k \in 1..Cardinality(ends) |-> SubSeq(s, start(nth(k)), nth(k))]

\* the k-th frame on the wire: a binary frame, then continuation frames
PieceFrame(k) == Encode(Frame(IF k = 1 THEN 2 ELSE 0, n_in.pieces[k]))

\* what the caller does with the return of _vless_ws_read_tunnel: it keeps
\* the data and calls again (lines 1985-1990), or ends
StripHandle(r) ==
  /\ n_buf' = r.buf
  /\ n_vless' = r.vless
  /\ n_inner' = n_inner \o r.data
  /\ n_ret' = r.reason
  /\ n_pc' = IF r.kind = "data" THEN "call"
             ELSE IF r.kind = "need" THEN "read" ELSE "done"

\* _vless_ws_read_tunnel is called, lines 1842-1866
StripCall ==
  /\ UNCHANGED nonStrip
  /\ n_pc = "call"
  /\ StripHandle(ReadTunnel(n_buf, n_vless))
  /\ UNCHANGED <<n_in, n_sent>>

\* reader.read returns the next frame, lines 1869-1878, then 1842-1866
StripRead ==
  /\ UNCHANGED nonStrip
  /\ n_pc = "read"
  /\ n_sent < Len(n_in.pieces)
  /\ StripHandle(ReadTunnel(n_buf \o PieceFrame(n_sent + 1), n_vless))
  /\ n_sent' = n_sent + 1
  /\ UNCHANGED n_in

\* reader.read returns b"": the server has closed, lines 1876-1877
StripEof ==
  /\ UNCHANGED nonStrip
  /\ n_pc = "read"
  /\ n_sent = Len(n_in.pieces)
  /\ n_pc' = "done"
  /\ n_ret' = Err("tunnel-eof", 0)
  /\ UNCHANGED <<n_in, n_sent, n_buf, n_vless, n_inner>>

StripInit ==
  /\ n_pc = "call"
  /\ \E s \in TunnelStreams : \E cuts \in SUBSET (1..(Len(s) - 1)) :
       n_in = [stream |-> s, pieces |-> Pieces(s, cuts)]
  /\ n_sent = 0
  /\ n_buf = << >>
  /\ n_vless = FALSE
  /\ n_inner = << >>
  /\ n_ret = NoError

NInit == StripInit /\ FirstIdle /\ LaterIdle /\ WavesIdle /\ ScoresIdle /\ ProxyIdle /\ ProbeIdle /\ MutexIdle /\ ObservedIdle /\ FunnelIdle /\ UpgradeIdle /\ PartialIdle /\ PortsIdle /\ ParserIdle /\ FinishIdle

NNext == StripCall \/ StripRead \/ StripEof

SpecStrip == NInit /\ [][NNext]_vars

\* C32: however the server cuts the tunnel stream into frames, the bytes
\* handed to the caller are the stream without its first 2 + addon_len
\* bytes, and vless-bad is returned exactly when the first byte of the
\* stream is not 0.
C32_HeaderStrippedForEverySplit ==
  n_pc = "done" =>
    IF n_in.stream[1] # 0
    THEN n_ret = Err("vless-bad", 0)
    ELSE /\ n_ret # Err("vless-bad", 0)
         /\ n_inner = Drop(n_in.stream, 2 + n_in.stream[2])

\* what holds of the code: the same, for the streams whose header and
\* addons arrive in the first frame
C32_HeaderInFirstFrame ==
  (n_pc = "done" /\ n_in.stream[1] = 0
     /\ Len(n_in.pieces[1]) >= 2 + n_in.stream[2]) =>
    /\ n_ret = Err("tunnel-eof", 0)
    /\ n_inner = Drop(n_in.stream, 2 + n_in.stream[2])

\* a stream cut into three frames has been read to its end
C32_WitnessSplit ==
  /\ n_pc = "done"
  /\ Len(n_in.pieces) = 3
  /\ n_sent = 3
  /\ n_in.stream[2] = 2

\* ===================================================================
\* Part 19: the WebSocket upgrade of _vless_ws_speed_test
\* (lines 1916-1969)
\* ===================================================================

\* The answer of the server is written in pieces: a status line, a header
\* line, the end of the header "\r\n\r\n", the first bytes of the tunnel.
READ_MAX == 4096          \* line 1935, reader.read(4096)
HDR_MAX == 16384          \* line 1939

\* the status lines, with the three digits that the pattern of line 1944
\* finds in them
StatusLines ==
  [l \in {"HTTP/1.1 101 Switching Protocols", "HTTP/1.1 403 Forbidden",
          "HTTP/1.1 200 OK"} |->
     CASE l = "HTTP/1.1 101 Switching Protocols" -> 101
       [] l = "HTTP/1.1 403 Forbidden" -> 403
       [] OTHER -> 200]
HdrEnd == "\r\n\r\n"
\* a header line of READ_MAX bytes, a first line that is no status line,
\* tunnel bytes
BigLine == "X-Pad"
NoStatusLine == "hello"
TunnelBytes == "frames"

\* len() of a piece
PieceLen(t) == IF t = BigLine THEN READ_MAX ELSE Len(t)
RECURSIVE BufLen(_)
BufLen(buf) == IF buf = << >> THEN 0 ELSE PieceLen(Head(buf)) + BufLen(Tail(buf))

\* hdr_buf[:sep], lines 1942-1943
HdrTxt(buf) ==
  SubSeq(buf, 1, CHOOSE i \in 1..Len(buf) :
                   buf[i] = HdrEnd /\ \A j \in 1..(i - 1) : buf[j] # HdrEnd)

\* lines 1944-1945: the code of the first match of HTTP/\S+\s+(\d{3}), 0
\* for ws_status = ""
WsStatus(txt) ==
  LET hits == {i \in 1..Len(txt) : txt[i] \in DOMAIN StatusLines}
  IN  IF hits = {} THEN 0
      ELSE StatusLines[txt[CHOOSE i \in hits : \A j \in hits : i <= j]]

\* line 1946
UpgradedAlways(ws_status) == TRUE
Upgraded(ws_status) == ws_status = 101

UpgradeAnswers ==
  { <<"HTTP/1.1 101 Switching Protocols", HdrEnd>>,
    <<"HTTP/1.1 101 Switching Protocols", HdrEnd, TunnelBytes>>,
    <<"HTTP/1.1 403 Forbidden", HdrEnd>>,
    <<"HTTP/1.1 200 OK", HdrEnd, TunnelBytes>>,
    <<NoStatusLine, HdrEnd>>,
    <<"HTTP/1.1 101 Switching Protocols", BigLine, BigLine, BigLine, BigLine,
      HdrEnd>>,
    <<"HTTP/1.1 101 Switching Protocols">>,
    << >> }

UpgradeReturn(kind, code) ==
  /\ u_pc' = "done"
  /\ u_ret' = [mbps |-> 0, error |-> Err(kind, code)]
  /\ UNCHANGED u_wrote

\* lines 1931-1969: one pass of the header loop, reader.read returning the
\* next k pieces (none when the server has closed), then the code after the
\* loop when the header is complete
UpgradeRead(k) ==
  LET chunk == SubSeq(u_in.resp, u_pos + 1, u_pos + k)
      hdr_buf == u_hdr \o chunk
  IN
  /\ UNCHANGED nonUpgrade
  /\ u_pc = "hdr"
  /\ u_pos + k <= Len(u_in.resp)
  /\ k = 0 <=> u_pos = Len(u_in.resp)
  /\ BufLen(chunk) <= READ_MAX
  /\ UNCHANGED <<u_in, u_late>>
  /\ IF u_late
     THEN \* line 1933-1934
          UpgradeReturn("ws-hdr-timeout", 0) /\ UNCHANGED <<u_pos, u_hdr>>
     ELSE IF k = 0
     THEN \* lines 1936-1937
          UpgradeReturn("ws-eof", 0) /\ UNCHANGED <<u_pos, u_hdr>>
     ELSE /\ u_pos' = u_pos + k
          /\ u_hdr' = hdr_buf
          /\ IF BufLen(hdr_buf) > HDR_MAX
             THEN UpgradeReturn("ws-hdr-overflow", 0)
             ELSE IF HdrEnd \notin Range(hdr_buf)
             THEN UNCHANGED <<u_pc, u_ret, u_wrote>>
             ELSE LET ws_status == WsStatus(HdrTxt(hdr_buf)) IN
                  IF ~Upgraded(ws_status)
                  THEN IF ws_status = 0
                       THEN UpgradeReturn("ws-no-resp", 0)
                       ELSE UpgradeReturn("ws-status", ws_status)
                  ELSE IF ~u_in.uuid_ok
                  THEN \* line 1951, UUID(uuid_str) raises ValueError
                       UpgradeReturn("ValueError", 0)
                  ELSE \* lines 1967-1968
                       /\ u_wrote' = Append(u_wrote, "vless")
                       /\ u_pc' = "tunnel"
                       /\ UNCHANGED u_ret

\* line 1935: the read times out after 4 s, or fails (lines 2018-2023)
UpgradeReadFails(kind) ==
  /\ UNCHANGED nonUpgrade
  /\ u_pc = "hdr"
  /\ UpgradeReturn(kind, 0)
  /\ UNCHANGED <<u_in, u_pos, u_hdr, u_late>>

\* the clock passes hdr_end (line 1930) while the read waits
UpgradeLate ==
  /\ UNCHANGED nonUpgrade
  /\ u_pc = "hdr"
  /\ ~u_late
  /\ u_late' = TRUE
  /\ UNCHANGED <<u_pc, u_in, u_pos, u_hdr, u_wrote, u_ret>>

\* the state after line 1927: the connection is open and the upgrade
\* request is written
UpgradeInit ==
  /\ u_pc = "hdr"
  /\ \E a \in UpgradeAnswers, ok \in BOOLEAN :
       u_in = [resp |-> a, uuid_ok |-> ok]
  /\ u_pos = 0
  /\ u_hdr = << >>
  /\ u_late = FALSE
  /\ u_wrote = <<"ws_req">>
  /\ u_ret = [mbps |-> 0, error |-> NoError]

UInit == UpgradeInit /\ FirstIdle /\ LaterIdle /\ WavesIdle /\ ScoresIdle /\ ProxyIdle /\ ProbeIdle /\ MutexIdle /\ ObservedIdle /\ FunnelIdle /\ StripIdle /\ PartialIdle /\ PortsIdle /\ ParserIdle /\ FinishIdle

UNext ==
  \/ \E k \in 0..3 : UpgradeRead(k)
  \/ \E kind \in {"timeout", "oserror"} : UpgradeReadFails(kind)
  \/ UpgradeLate

SpecUpgrade == UInit /\ [][UNext]_vars

\* the status of the answer as far as it was received: the code of its
\* first line once the end of the header has arrived, else 0
AnswerStatus ==
  LET got == SubSeq(u_in.resp, 1, u_pos)
  IN  IF HdrEnd \in Range(got) /\ got[1] \in DOMAIN StatusLines
      THEN StatusLines[got[1]] ELSE 0

\* C33: the VLESS request frame is written only after a complete answer
\* with status 101 was read; a return from the upgrade (another status, end
\* of stream, header timeout, header overflow) carries an error and mbps = 0,
\* the error being the status for a complete answer with another status,
\* and the VLESS frame was not written.
C33_VlessOnlyAfter101 ==
  /\ "vless" \in Range(u_wrote) => AnswerStatus = 101
  /\ u_pc = "done" =>
       /\ "vless" \notin Range(u_wrote)
       /\ u_ret.mbps = 0
       /\ u_ret.error # NoError
       /\ AnswerStatus \notin {0, 101}
            => u_ret.error = Err("ws-status", AnswerStatus)

\* the upgrade was refused with 403 and the probe has returned
C33_Witness ==
  /\ u_pc = "done"
  /\ AnswerStatus = 403
  /\ u_ret = [mbps |-> 0, error |-> Err("ws-status", 403)]
  /\ u_wrote = <<"ws_req">>

\* the upgrade was answered with 101 and the VLESS frame is written
C33_WitnessSent ==
  u_pc = "tunnel" /\ u_wrote = <<"ws_req", "vless">> /\ AnswerStatus = 101

\* ===================================================================
\* Part 20: what a clean-IP scan returns when it is cancelled:
\* scan_clean_ips (lines 3315-3378) and the callers that await it
\* (lines 4628-4661 and 8683-8714)
\* ===================================================================

CleanLatencies == {0, 10, 20}

\* a stable sort by the latency
RECURSIVE SortByLatency(_)
SortByLatency(list) ==
  IF list = << >> THEN << >>
  ELSE LET rest == SortByLatency(SubSeq(list, 1, Len(list) - 1))
           x == list[Len(list)]
           before == SelectSeq(rest, LAMBDA e : e[2] <= x[2])
           after == SelectSeq(rest, LAMBDA e : e[2] > x[2])
       IN  before \o <<x>> \o after

\* results.sort(key=lambda x: x[1]), line 3377, and
\* sorted(cs.all_results or cs.results, key=lambda x: x[1]), lines 4658, 8714
KeepOrder(list) == list
SortResults(list) == SortByLatency(list)

\* lines 3377-3378, then the caller (lines 4655-4661, 8711-8714): it awaits
\* the task; a cancelled task raises and the caller sorts cs.all_results,
\* the list that results refers to
CleanReturn(tasks, raised) ==
  /\ y_task' = tasks
  /\ y_results' = IF raised THEN y_results ELSE SortResults(y_results)
  /\ y_ret' = SortResults(y_results)
  /\ y_pc' = "collected"
  /\ y_cancel' = FALSE
  /\ UNCHANGED <<y_in, y_sem, y_intr>>

\* the first step of the task, lines 3326-3367: a task cancelled before it
\* ran never runs; with the flag set no probe task is created (3364)
CleanBegin ==
  /\ UNCHANGED nonPartial
  /\ y_pc = "created"
  /\ IF y_cancel /\ y_in.direct
     THEN CleanReturn(y_task, TRUE)
     ELSE IF y_intr
     THEN CleanReturn(y_task, FALSE)
     ELSE /\ y_pc' = "gather"
          /\ y_task' = [t \in DOMAIN y_in.lat |-> "created"]
          /\ UNCHANGED <<y_in, y_sem, y_intr, y_cancel, y_results, y_ret>>

\* probe up to its first suspension, lines 3339-3345
CleanStart(t) ==
  /\ UNCHANGED nonPartial
  /\ y_pc = "gather"
  /\ y_task[t] = "created"
  /\ IF y_intr
     THEN y_task' = [y_task EXCEPT ![t] = "returned"] /\ UNCHANGED y_sem
     ELSE IF y_sem = 0
     THEN y_task' = [y_task EXCEPT ![t] = "wait_sem"] /\ UNCHANGED y_sem
     ELSE y_task' = [y_task EXCEPT ![t] = "probing"] /\ y_sem' = y_sem - 1
  /\ UNCHANGED <<y_pc, y_in, y_intr, y_cancel, y_results, y_ret>>

\* probe gets its slot, lines 3342-3345
CleanGetSem(t) ==
  /\ UNCHANGED nonPartial
  /\ y_pc = "gather"
  /\ y_task[t] = "wait_sem"
  /\ y_sem > 0
  /\ IF y_intr
     THEN y_task' = [y_task EXCEPT ![t] = "returned"] /\ UNCHANGED y_sem
     ELSE y_task' = [y_task EXCEPT ![t] = "probing"] /\ y_sem' = y_sem - 1
  /\ UNCHANGED <<y_pc, y_in, y_intr, y_cancel, y_results, y_ret>>

\* _tls_probe returns, lines 3345-3356: a success is appended under the
\* lock, which is free (no holder suspends)
CleanFinish(t) ==
  /\ UNCHANGED nonPartial
  /\ y_pc = "gather"
  /\ y_task[t] = "probing"
  /\ y_task' = [y_task EXCEPT ![t] = "finished"]
  /\ y_sem' = y_sem + 1
  /\ y_results' = IF y_in.lat[t] > 0
                  THEN Append(y_results, <<t, y_in.lat[t]>>) ELSE y_results
  /\ UNCHANGED <<y_pc, y_in, y_intr, y_cancel, y_ret>>

\* gather returns, the loop over the batches ends, lines 3369-3378
CleanGatherDone ==
  /\ UNCHANGED nonPartial
  /\ y_pc = "gather"
  /\ \A t \in DOMAIN y_task : y_task[t] \in {"finished", "returned"}
  /\ CleanReturn(y_task, FALSE)

\* Ctrl+C, lines 4638-4640 and 8691-8693
CleanInterrupt ==
  /\ UNCHANGED nonPartial
  /\ y_pc \in {"created", "gather"}
  /\ ~y_intr
  /\ y_intr' = TRUE
  /\ y_cancel' = TRUE
  /\ UNCHANGED <<y_pc, y_in, y_task, y_sem, y_results, y_ret>>

\* the cancellation reaches the gather, lines 3370-3378: the probes still
\* running are cancelled, the loop is left
CleanCancelled ==
  /\ UNCHANGED nonPartial
  /\ y_pc = "gather"
  /\ y_cancel
  /\ CleanReturn([t \in DOMAIN y_task |->
                    IF y_task[t] \in {"finished", "returned"} THEN y_task[t]
                    ELSE "cancelled"], FALSE)

PartialInit ==
  /\ y_pc = "created"
  /\ \E n \in 0..MaxProbes : \E l \in [1..n -> CleanLatencies] :
       \E w \in 1..MaxWorkers, d \in BOOLEAN :
         /\ y_in = [lat |-> l, workers |-> w, direct |-> d]
         /\ y_sem = w
  /\ y_task = << >>
  /\ y_intr = FALSE
  /\ y_cancel = FALSE
  /\ y_results = << >>
  /\ y_ret = << >>

YInit == PartialInit /\ FirstIdle /\ LaterIdle /\ WavesIdle /\ ScoresIdle /\ ProxyIdle /\ ProbeIdle /\ MutexIdle /\ ObservedIdle /\ FunnelIdle /\ StripIdle /\ UpgradeIdle /\ PortsIdle /\ ParserIdle /\ FinishIdle

YNext ==
  \/ CleanBegin
  \/ \E t \in DOMAIN y_task : CleanStart(t)
  \/ \E t \in DOMAIN y_task : CleanGetSem(t)
  \/ \E t \in DOMAIN y_task : CleanFinish(t)
  \/ CleanGatherDone
  \/ CleanInterrupt
  \/ CleanCancelled

SpecPartial == YInit /\ [][YNext]_vars

\* the probes whose _tls_probe returned a success
Succeeded ==
  {t \in DOMAIN y_task : y_task[t] = "finished" /\ y_in.lat[t] > 0}

\* C35: the list a clean-IP scan yields, cancelled at any point or not, is
\* sorted ascending by latency and holds exactly the successful probes that
\* completed, each once; without a cancellation these are all the probes
\* that succeed.
C35_PartialSortedAndComplete ==
  y_pc = "collected" =>
    /\ \A i \in 1..(Len(y_ret) - 1) : y_ret[i][2] <= y_ret[i + 1][2]
    /\ Len(y_ret) = Cardinality(Succeeded)
    /\ \A t \in Succeeded : \E i \in 1..Len(y_ret) : y_ret[i] = <<t, y_in.lat[t]>>
    /\ ~y_intr => Succeeded = {t \in DOMAIN y_in.lat : y_in.lat[t] > 0}

\* a scan cancelled with one probe still running yields the two probes that
\* completed, which finished in the other order
C35_Witness ==
  /\ y_pc = "collected"
  /\ y_intr
  /\ \E t \in DOMAIN y_task : y_task[t] = "cancelled" /\ y_in.lat[t] > 0
  /\ Len(y_ret) = 2
  /\ y_ret[1][2] < y_ret[2][2]
  /\ y_ret[1][1] > y_ret[2][1]

\* ===================================================================
\* Part 21: the local port and the configuration file of concurrent
\* variation tests on the xray path: _find_free_ports (1451-1465),
\* _test_single_variation (2444-2497), XrayProcess.start (1512-1548)
\* ===================================================================

\* _find_free_ports(XRAY_BASE_PORT, 1): the first port from the base on
\* that can be bound now
FindFreePort == CHOOSE p \in PortPool : z_bound[p] = 0 /\ \A q \in PortPool :
                                          (q < p) => z_bound[q] # 0

\* lines 2444-2469: the port is found, the configuration is written, the
\* start of xray is handed to the executor
PortsBegin(t) ==
  /\ UNCHANGED nonPorts
  /\ z_pc[t] = "init"
  /\ z_port' = [z_port EXCEPT ![t] = FindFreePort]
  /\ z_file' = [z_file EXCEPT ![FindFreePort] = t]
  /\ z_pc' = [z_pc EXCEPT ![t] = "starting"]
  /\ UNCHANGED <<z_bound, z_runs>>

\* lines 2444-2497, the end of the test: xp.stop() ends the process,
\* xp.cleanup() removes the configuration file
PortsEnd(t) ==
  /\ z_pc' = [z_pc EXCEPT ![t] = "done"]
  /\ z_bound' = [p \in PortPool |-> IF z_bound[p] = t THEN 0 ELSE z_bound[p]]
  /\ z_file' = [z_file EXCEPT ![z_port[t]] = 0]
  /\ z_runs' = [z_runs EXCEPT ![t] = 0]

\* lines 1512-1530, in the executor: xray is spawned, reads the file of its
\* port and listens on the port if it is free.  Without the file, or with
\* the port taken, the process exits.
PortsSpawn(t) ==
  /\ UNCHANGED nonPorts
  /\ z_pc[t] = "starting"
  /\ z_pc' = [z_pc EXCEPT ![t] = "spawned"]
  /\ IF z_file[z_port[t]] # 0 /\ z_bound[z_port[t]] = 0
     THEN /\ z_bound' = [z_bound EXCEPT ![z_port[t]] = t]
          /\ z_runs' = [z_runs EXCEPT ![t] = z_file[z_port[t]]]
     ELSE UNCHANGED <<z_bound, z_runs>>
  /\ UNCHANGED <<z_port, z_file>>

\* lines 1532-1548 and 2470-2472: start polls; it returns True when the
\* port accepts a connection, False when its process has exited
PortsStarted(t) ==
  /\ UNCHANGED nonPorts
  /\ z_pc[t] = "spawned"
  /\ IF z_bound[z_port[t]] = t
     THEN /\ z_pc' = [z_pc EXCEPT ![t] = "testing"]
          /\ UNCHANGED <<z_bound, z_file, z_runs>>
     ELSE PortsEnd(t)
  /\ UNCHANGED z_port

\* lines 1532-1544: the process of this test has not yet exited and the
\* port accepts a connection, made to the xray of another test
PortsStartedOnOther(t) ==
  /\ UNCHANGED nonPorts
  /\ z_pc[t] = "spawned"
  /\ z_bound[z_port[t]] \notin {0, t}
  /\ z_pc' = [z_pc EXCEPT ![t] = "testing"]
  /\ UNCHANGED <<z_port, z_bound, z_file, z_runs>>

\* lines 2474-2497: xray_speed_test returns, the test ends
PortsTested(t) ==
  /\ UNCHANGED nonPorts
  /\ z_pc[t] = "testing"
  /\ PortsEnd(t)
  /\ UNCHANGED z_port

\* a gather of MaxPortTests tests under the semaphore of 20 (3057-3082)
PortsInit ==
  /\ z_pc = [t \in PortTests |-> "init"]
  /\ z_port = [t \in PortTests |-> 0]
  /\ z_bound = [p \in PortPool |-> 0]
  /\ z_file = [p \in PortPool |-> 0]
  /\ z_runs = [t \in PortTests |-> 0]

ZInit == PortsInit /\ FirstIdle /\ LaterIdle /\ WavesIdle /\ ScoresIdle /\ ProxyIdle /\ ProbeIdle /\ MutexIdle /\ ObservedIdle /\ FunnelIdle /\ StripIdle /\ UpgradeIdle /\ PartialIdle /\ ParserIdle /\ FinishIdle

ZNext ==
  \/ \E t \in PortTests : PortsBegin(t)
  \/ \E t \in PortTests : PortsSpawn(t)
  \/ \E t \in PortTests : PortsStarted(t)
  \/ \E t \in PortTests : PortsStartedOnOther(t)
  \/ \E t \in PortTests : PortsTested(t)

SpecPorts == ZInit /\ [][ZNext]_vars

\* the tests that have their port and have not ended
PortInUse(t) == z_pc[t] \in {"starting", "spawned", "testing"}

\* C38: two variation tests that run at the same time never have the same
\* local SOCKS port, nor the same configuration file.
C38_NoSharedPort ==
  \A s, t \in PortTests :
    (s # t /\ PortInUse(s) /\ PortInUse(t)) => z_port[s] # z_port[t]

\* what the sharing leads to: the xray of a test never runs the
\* configuration of another test, and a running test has its file
C38_OwnConfiguration ==
  \A t \in PortTests :
    /\ z_runs[t] \in {0, t}
    /\ z_pc[t] = "starting" => z_file[z_port[t]] = t

\* ===================================================================
\* Part 22: _WsFrameParser fed in chunks (1744-1788)
\* ===================================================================

\* the streams of the server: unmasked and masked frames, lengths in 7, 16
\* and 64 bits, an empty payload, and a last frame that never completes
F_EXT == [op |-> 1, payload |-> <<1, 2, 3>>, masked |-> FALSE, ext |-> TRUE]
F_EXTMASKED == [op |-> 2, payload |-> <<4, 5>>, masked |-> TRUE, ext |-> TRUE]
WIRE_LEN64 == <<130, 127, 0, 0, 0, 0, 0, 0, 0, 2, 7, 9>>
WIRE_CUT == <<130, 5, 1>>
ParserStreams ==
  { Encode(F_VH) \o Encode(F_MASKED) \o Encode(F_PING),
    Encode(F_EXT) \o Encode(F_EMPTY) \o Encode(F_EXTMASKED),
    WIRE_LEN64 \o Encode(F_CLOSE) \o WIRE_CUT }

\* the bytes the constructor may be given (initial, line 1748)
MaxInitial == 2

\* next_frame called until it returns None on a buffer that gets no more
\* bytes: the frames returned
RECURSIVE ParseAll(_)
ParseAll(buf) ==
  LET r == NextFrame(buf)
  IN  IF r.ok THEN <<[op |-> r.op, payload |-> r.payload]>> \o ParseAll(r.rest)
      ELSE << >>

\* feed(data), lines 1751-1752, with the next k bytes of the stream
ParserFeed(k) ==
  /\ UNCHANGED nonParser
  /\ a_pos + k <= Len(a_in)
  /\ a_buf' = a_buf \o SubSeq(a_in, a_pos + 1, a_pos + k)
  /\ a_pos' = a_pos + k
  /\ a_last' = "feed"
  /\ UNCHANGED <<a_in, a_out, a_cut>>

\* next_frame(), lines 1754-1784
ParserNext ==
  /\ UNCHANGED nonParser
  /\ a_in # << >>
  /\ LET r == NextFrame(a_buf)
     IN  /\ a_buf' = r.rest
         /\ a_out' = IF r.ok
                     THEN Append(a_out, [op |-> r.op, payload |-> r.payload])
                     ELSE a_out
         /\ a_last' = IF r.ok THEN "frame" ELSE "none"
         /\ a_cut' = (a_cut \/ (~r.ok /\ a_buf # << >>))
  /\ UNCHANGED <<a_in, a_pos>>

ParserInit ==
  /\ a_in \in ParserStreams
  /\ a_pos \in 0..MaxInitial
  /\ a_buf = SubSeq(a_in, 1, a_pos)
  /\ a_out = << >>
  /\ a_last = "new"
  /\ a_cut = FALSE

AInit == ParserInit /\ FirstIdle /\ LaterIdle /\ WavesIdle /\ ScoresIdle /\ ProxyIdle /\ ProbeIdle /\ MutexIdle /\ ObservedIdle /\ FunnelIdle /\ StripIdle /\ UpgradeIdle /\ PartialIdle /\ PortsIdle /\ FinishIdle

ANext ==
  \/ \E k \in 1..Len(a_in) : ParserFeed(k)
  \/ ParserNext

SpecParser == AInit /\ [][ANext]_vars

\* C39: however the stream is cut into chunks and whenever next_frame is
\* called, the frames returned so far followed by the frames that the
\* bytes still buffered and still to come give when parsed at once are the
\* frames of the whole stream parsed at once; and a call that returns None
\* leaves the buffer as it was.
C39_ChunkingInsensitive ==
  /\ [](a_out \o ParseAll(a_buf \o Drop(a_in, a_pos)) = ParseAll(a_in))
  /\ [][a_last' = "none" => (a_buf' = a_buf /\ a_out' = a_out)]_vars

\* a call returned None on the first bytes of a frame, and after more
\* chunks all three frames of the stream have been returned, the masked
\* one with its payload unmasked
C39_Witness ==
  /\ a_cut
  /\ a_last = "frame"
  /\ Len(a_out) = 3
  /\ a_out[2].payload = <<0, 0, S204, HEnd>>
  /\ a_out = ParseAll(a_in)

\* the whole stream has been fed in pieces and parsed to its end, the bytes
\* of the frame that never completes are still in the buffer
C39_WitnessEnd ==
  /\ a_in = WIRE_LEN64 \o Encode(F_CLOSE) \o WIRE_CUT
  /\ a_pos = Len(a_in)
  /\ a_last = "none"
  /\ a_buf = WIRE_CUT
  /\ a_out = ParseAll(a_in)
  /\ Len(a_out) = 2
  /\ a_cut

\* ===================================================================
\* Part 23: the ways xray_pipeline_test (2500-3088) ends, under
\* _run_pipeline_core (5201-5222): the stage statuses and xst.finished
\* ===================================================================

\* the base URIs of a config-less run
MaxUris == 2

\* lines 2960-2963: the fallback SNIs of a config whose SNI is none of them
FB_SNIS == 3

\* the pipeline task has ended
FinEnded == {"returned", "cancelled", "raised"}

\* the points at which the pipeline task is suspended
AwaitPoints ==
  {"preflight", "scan", "uri_test", "base_gather", "fb_test", "exp_gather"}

\* a stage status that stays "active" ("as" of a mutation of StageStatus)
StageStatusActive(intr) == "active"

\* lines 2988 and 3084
StageStatus(intr) == IF intr THEN "interrupted" ELSE "done"

\* xst.finished = True followed by return (2840-2849, 2891-2894, 3000-3014,
\* 3087-3088)
PipeReturns ==
  /\ j_finished' = TRUE
  /\ j_self' = TRUE
  /\ j_pc' = "returned"

\* lines 2500-2817: the preflight ends, Stage 1 becomes active and its
\* probes are handed to gather
FinPreflight ==
  /\ UNCHANGED nonFinish
  /\ j_pc = "preflight"
  /\ j_status' = [j_status EXCEPT ![1] = "active"]
  /\ j_pc' = "scan"
  /\ UNCHANGED <<j_in, j_finished, j_self, j_intr, j_i, j_left, j_task,
                 j_working>>

\* lines 2817-2849: the gather of Stage 1 returns, with live IPs or none
FinScanDone(live) ==
  /\ UNCHANGED nonFinish
  /\ j_pc = "scan"
  /\ IF ~live \/ j_intr
     THEN /\ j_status' = [j_status EXCEPT ![1] = "interrupted"]
          /\ PipeReturns
     ELSE /\ j_status' = [j_status EXCEPT ![1] = "done"]
          /\ j_pc' = "stage2"
          /\ UNCHANGED <<j_finished, j_self>>
  /\ UNCHANGED <<j_in, j_intr, j_i, j_left, j_task, j_working>>

\* lines 2852-2863: Stage 2 becomes active
FinBaseSetup ==
  /\ UNCHANGED nonFinish
  /\ j_pc = "stage2"
  /\ j_status' = [j_status EXCEPT ![2] = "active"]
  /\ j_pc' = IF j_in.configless THEN "uri_top" ELSE "base_top"
  /\ j_i' = 1
  /\ j_left' = j_in.base
  /\ UNCHANGED <<j_in, j_finished, j_self, j_intr, j_task, j_working>>

\* lines 2864-2866 and 2889-2894: the top of the loop over the base URIs,
\* and the return when none of them worked
FinUriTop ==
  /\ UNCHANGED nonFinish
  /\ j_pc = "uri_top"
  /\ IF j_intr \/ j_i > j_in.uris
     THEN /\ j_status' = [j_status EXCEPT ![2] = "done"]
          /\ PipeReturns
     ELSE /\ j_pc' = "uri_test"
          /\ UNCHANGED <<j_status, j_finished, j_self>>
  /\ UNCHANGED <<j_in, j_intr, j_i, j_left, j_task, j_working>>

\* lines 2876-2888 and 2896-2950: the test of a base URI returns
FinUriTested(alive) ==
  /\ UNCHANGED nonFinish
  /\ j_pc = "uri_test"
  /\ IF alive
     THEN j_working' = TRUE /\ j_pc' = "base_top" /\ j_i' = 0
     ELSE j_i' = j_i + 1 /\ j_pc' = "uri_top" /\ UNCHANGED j_working
  /\ UNCHANGED <<j_in, j_status, j_finished, j_self, j_intr, j_left, j_task>>

\* the top of the loop over the batches of a stage (2951-2955, 3077-3081):
\* the next batch goes to gather, or the loop ends
FinLoopTop(top, gather, end, size) ==
  /\ UNCHANGED nonFinish
  /\ j_pc = top
  /\ IF j_intr \/ j_left = 0
     THEN j_pc' = end /\ UNCHANGED <<j_left, j_task>>
     ELSE /\ j_pc' = gather
          /\ j_task' = [NoTask EXCEPT !.created = Min(j_left, size)]
          /\ j_left' = j_left - Min(j_left, size)
  /\ UNCHANGED <<j_in, j_status, j_finished, j_self, j_intr, j_i, j_working>>

FinBaseTop == FinLoopTop("base_top", "base_gather", "base_end", BASE_BATCH)
FinExpTop == FinLoopTop("exp_top", "exp_gather", "exp_end", EXP_CHUNK)

\* _test_base and _test_exp up to their await (2934-2937, 3060-3064)
FinTaskBegin ==
  /\ UNCHANGED nonFinish
  /\ j_pc \in {"base_gather", "exp_gather"}
  /\ j_task.created > 0
  /\ j_task.testing < (IF j_pc = "base_gather" THEN BASE_SEM ELSE EXP_SEM)
  /\ j_task' = IF j_intr
               THEN [j_task EXCEPT !.created = @ - 1, !.returned = TRUE]
               ELSE [j_task EXCEPT !.created = @ - 1, !.testing = @ + 1]
  /\ UNCHANGED <<j_pc, j_in, j_status, j_finished, j_self, j_intr, j_i,
                 j_left, j_working>>

\* _test_base and _test_exp after their await (2938-2948, 3065-3068)
FinTaskEnd(alive) ==
  /\ UNCHANGED nonFinish
  /\ j_pc \in {"base_gather", "exp_gather"}
  /\ j_task.testing > 0
  /\ j_task' = [j_task EXCEPT !.testing = @ - 1]
  /\ j_working' = (j_working \/ (alive /\ j_pc = "base_gather"))
  /\ UNCHANGED <<j_pc, j_in, j_status, j_finished, j_self, j_intr, j_i,
                 j_left>>

\* the gather of a batch returns (2955, 3081); after a task has returned
\* untested the pipeline is cancelled there instead
FinGatherDone ==
  /\ UNCHANGED nonFinish
  /\ j_pc \in {"base_gather", "exp_gather"}
  /\ j_task = NoTask
  /\ j_pc' = IF j_pc = "base_gather" THEN "base_top" ELSE "exp_top"
  /\ UNCHANGED <<j_in, j_status, j_finished, j_self, j_intr, j_i, j_left,
                 j_task, j_working>>

\* line 2959: whether the fallback SNIs are tried
FinBaseEnd ==
  /\ UNCHANGED nonFinish
  /\ j_pc = "base_end"
  /\ IF ~j_working /\ ~j_intr /\ j_in.kind # "reality"
     THEN j_pc' = "fb_top" /\ j_i' = 1
     ELSE j_pc' = "base_status" /\ UNCHANGED j_i
  /\ UNCHANGED <<j_in, j_status, j_finished, j_self, j_intr, j_left, j_task,
                 j_working>>

\* lines 2965-2967: the top of the loop over the fallback SNIs
FinFbTop ==
  /\ UNCHANGED nonFinish
  /\ j_pc = "fb_top"
  /\ IF j_intr \/ j_i > FB_SNIS
     THEN j_pc' = "base_status" /\ j_i' = 0
     ELSE j_pc' = "fb_test" /\ UNCHANGED j_i
  /\ UNCHANGED <<j_in, j_status, j_finished, j_self, j_intr, j_left, j_task,
                 j_working>>

\* lines 2979-2986: the test of a fallback SNI returns
FinFbTested(alive) ==
  /\ UNCHANGED nonFinish
  /\ j_pc = "fb_test"
  /\ IF alive
     THEN j_working' = TRUE /\ j_pc' = "base_status" /\ j_i' = 0
     ELSE j_i' = j_i + 1 /\ j_pc' = "fb_top" /\ UNCHANGED j_working
  /\ UNCHANGED <<j_in, j_status, j_finished, j_self, j_intr, j_left, j_task>>

\* line 2988
FinBaseStatus ==
  /\ UNCHANGED nonFinish
  /\ j_pc = "base_status"
  /\ j_status' = [j_status EXCEPT ![2] = StageStatus(j_intr)]
  /\ j_pc' = "decide"
  /\ UNCHANGED <<j_in, j_finished, j_self, j_intr, j_i, j_left, j_task,
                 j_working>>

\* lines 2992-3076: the run gives up, or Stage 3 becomes active
FinDecide ==
  /\ UNCHANGED nonFinish
  /\ j_pc = "decide"
  /\ IF ~(~j_working /\ ~j_intr /\ j_in.kind = "cf") /\ (~j_working \/ j_intr)
     THEN /\ PipeReturns
          /\ UNCHANGED <<j_status, j_left>>
     ELSE /\ j_status' = [j_status EXCEPT ![3] = "active"]
          /\ j_left' = j_in.exp
          /\ j_pc' = "exp_top"
          /\ UNCHANGED <<j_finished, j_self>>
  /\ UNCHANGED <<j_in, j_intr, j_i, j_task, j_working>>

\* lines 3084-3088
FinExpEnd ==
  /\ UNCHANGED nonFinish
  /\ j_pc = "exp_end"
  /\ j_status' = [j_status EXCEPT ![3] = StageStatus(j_intr)]
  /\ PipeReturns
  /\ UNCHANGED <<j_in, j_intr, j_i, j_left, j_task, j_working>>

\* _sig, lines 5206-5209
FinInterrupt ==
  /\ UNCHANGED nonFinish
  /\ j_pc \notin FinEnded
  /\ ~j_intr
  /\ j_intr' = TRUE
  /\ j_finished' = TRUE
  /\ UNCHANGED <<j_pc, j_in, j_status, j_self, j_i, j_left, j_task, j_working>>

\* lines 5212-5217: the cancellation reaches the pipeline at its await
FinCancelled ==
  /\ UNCHANGED nonFinish
  /\ j_pc \in AwaitPoints
  /\ j_intr
  /\ j_pc' = "cancelled"
  /\ j_finished' = TRUE
  /\ j_task' = NoTask
  /\ UNCHANGED <<j_in, j_status, j_self, j_intr, j_i, j_left, j_working>>

\* lines 5218-5222: an exception leaves the pipeline at an await
FinRaised ==
  /\ UNCHANGED nonFinish
  /\ j_pc \in AwaitPoints
  /\ j_pc' = "raised"
  /\ j_intr' = TRUE
  /\ j_finished' = TRUE
  /\ j_task' = NoTask
  /\ UNCHANGED <<j_in, j_status, j_self, j_i, j_left, j_working>>

\* the numbers of base tests and of expansion variations: none to expand,
\* one batch each, a second batch in Stage 2, a second chunk in Stage 3
FinishSizes ==
  {<<1, 0>>, <<1, 1>>, <<BASE_BATCH + 1, 1>>, <<1, EXP_CHUNK + 1>>}

FinishInit ==
  /\ j_pc = "preflight"
  /\ \E kind \in {"cf", "tls", "reality"}, configless \in BOOLEAN,
        size \in FinishSizes :
       j_in = [kind |-> kind, configless |-> configless,
               uris |-> IF configless THEN MaxUris ELSE 0,
               base |-> size[1], exp |-> size[2]]
  /\ j_status = <<"pending", "pending", "pending">>
  /\ j_finished = FALSE
  /\ j_self = FALSE
  /\ j_intr = FALSE
  /\ j_i = 0
  /\ j_left = 0
  /\ j_task = NoTask
  /\ j_working = FALSE

JInit == FinishInit /\ FirstIdle /\ LaterIdle /\ WavesIdle /\ ScoresIdle /\ ProxyIdle /\ ProbeIdle /\ MutexIdle /\ ObservedIdle /\ FunnelIdle /\ StripIdle /\ UpgradeIdle /\ PartialIdle /\ PortsIdle /\ ParserIdle

\* the steps of the event loop: a ready task runs, a test or a probe ends
\* (each of them has a timeout)
FinSteps ==
  \/ FinPreflight
  \/ \E live \in BOOLEAN : FinScanDone(live)
  \/ FinBaseSetup
  \/ FinUriTop
  \/ \E alive \in BOOLEAN : FinUriTested(alive)
  \/ FinBaseTop
  \/ FinExpTop
  \/ FinTaskBegin
  \/ \E alive \in BOOLEAN : FinTaskEnd(alive)
  \/ FinGatherDone
  \/ FinBaseEnd
  \/ FinFbTop
  \/ \E alive \in BOOLEAN : FinFbTested(alive)
  \/ FinBaseStatus
  \/ FinDecide
  \/ FinExpEnd
  \/ FinCancelled

JNext ==
  \/ FinSteps
  \/ FinInterrupt
  \/ FinRaised

SpecFinish == JInit /\ [][JNext]_vars

\* the event loop keeps running what is ready, and no test waits for ever
SpecFinishFair == JInit /\ [][JNext]_vars /\ WF_vars(FinSteps)

\* C40: every run of the pipeline comes to xst.finished = True, and once
\* the pipeline has set it itself no stage has the status "active".
C40_EventuallyFinished ==
  /\ <>j_finished
  /\ [](j_self => \A s \in 1..3 : j_status[s] # "active")

\* Stage 3 has run to its end over more than one chunk, without Ctrl-C
C40_Witness ==
  /\ j_self
  /\ ~j_intr
  /\ j_status = <<"done", "done", "done">>
  /\ j_in.exp = EXP_CHUNK + 1
  /\ j_pc = "returned"

\* the run ended after Stage 1 with no live IP
C40_WitnessNoLive ==
  j_self /\ ~j_intr /\ j_status = <<"interrupted", "pending", "pending">>

\* no base URI of a config-less run worked
C40_WitnessNoBase ==
  /\ j_self /\ ~j_intr /\ j_in.configless /\ j_i > j_in.uris
  /\ j_status = <<"done", "done", "pending">>

\* every base test and every fallback SNI failed: working_ips is empty
C40_WitnessNoWorking ==
  /\ j_self /\ ~j_intr /\ ~j_working /\ ~j_in.configless
  /\ j_in.kind = "tls"
  /\ j_status = <<"done", "done", "pending">>

\* Ctrl-C during Stage 3, seen by the pipeline at the top of its loop
C40_WitnessInterrupted ==
  j_self /\ j_intr /\ j_status = <<"done", "done", "interrupted">>

====
